---- MODULE Spec2Model ----
(***************************************************************************)
(* Model of ensure-immutable-actions: the run() entry point, the workflow  *)
(* parser, the reference classifier, the release-immutability resolver and *)
(* the aggregation in checkAllActions.                                     *)
(*                                                                         *)
(* Text that the program inspects character by character (uses strings,    *)
(* owners, repos, refs, file and job names) is a sequence of one-character *)
(* strings; text that is only compared or concatenated (messages, step     *)
(* names, tokens) is a TLA+ string.                                        *)
(***************************************************************************)
EXTENDS Integers, Sequences, FiniteSets, TLC

VARIABLES
    inputs,        \* the action inputs as core.getInput returns them
    workspace,     \* .github/workflows: [dirExists, files: [name, doc] in readdir order]
    pc,            \* position of run()
    failOnMutable, \* run(): const failOnMutable
    workflowFiles, \* run(): const workflowFiles (paths <<dir, basename>>)
    fileIdx,       \* run(): position of the for loop over workflowFiles
    allActions,    \* run(): const allActions
    uniqueActions, \* checkAllActions(): const uniqueActions
    actIdx,        \* checkAllActions(): position of the for loop over uniqueActions
    cache,         \* checkAllActions(): immutabilityCache, a sequence of [key, value]
    mutable,       \* checkAllActions(): const mutable
    immutable,     \* checkAllActions(): const immutable
    firstParty,    \* checkAllActions(): const firstParty
    byWorkflow,    \* checkAllActions(): const byWorkflow, [key, value] in key order
    inflight,      \* the getReleaseByTag request being awaited, or <<>>
    lastResponse,  \* what the getReleaseByTag call of the iteration just ended settled with
    calls,         \* every getReleaseByTag request issued, in order, with its uses string
    cacheWrites,   \* every immutabilityCache.set key, in order
    outputs,       \* core.setOutput calls: sequence of [name, value]
    failed,        \* core.setFailed messages, in order
    warnings,      \* core.warning messages, in order
    summary,       \* "none", "written" or "fallback"
    fnArgs,        \* the arguments of a function applied on its own
    fnOut          \* what that function returned or threw

vars == <<inputs, workspace, pc, failOnMutable, workflowFiles, fileIdx,
          allActions, uniqueActions, actIdx, cache, mutable, immutable,
          firstParty, byWorkflow, inflight, lastResponse, calls, cacheWrites,
          outputs, failed, warnings, summary, fnArgs, fnOut>>

\* the variables of run() and of the functions it calls
runVars == <<inputs, workspace, failOnMutable, workflowFiles, fileIdx, allActions,
             uniqueActions, actIdx, cache, mutable, immutable, firstParty, byWorkflow,
             cacheWrites, outputs, failed, summary>>

fnVars == <<fnArgs, fnOut>>

(***************************************************************************)
(* Bounds.                                                                 *)
(***************************************************************************)
\* the largest number of steps over all workflow files of the workspace
MaxSteps == 3

(***************************************************************************)
(* Text helpers.                                                           *)
(***************************************************************************)
RECURSIVE Rep(_, _)
Rep(s, n) == IF n = 0 THEN <<>> ELSE s \o Rep(s, n - 1)

StartsWith(s, p) == Len(s) >= Len(p) /\ SubSeq(s, 1, Len(p)) = p

EndsWith(s, p) == Len(s) >= Len(p) /\ SubSeq(s, Len(s) - Len(p) + 1, Len(s)) = p

Includes(s, p) == \E i \in 1..(Len(s) - Len(p) + 1) : SubSeq(s, i, i + Len(p) - 1) = p

\* position of the first occurrence of character c in s at or after from, 0 if none
IndexOf(s, c, from) ==
    IF \E i \in from..Len(s) : s[i] = c
    THEN CHOOSE i \in from..Len(s) : s[i] = c /\ \A j \in from..(i - 1) : s[j] # c
    ELSE 0

SelectSeqIdx(s, Keep(_)) ==
    LET F[i \in 0..Len(s)] == IF i = 0 THEN <<>>
                              ELSE IF Keep(i) THEN Append(F[i - 1], s[i]) ELSE F[i - 1]
    IN F[Len(s)]

RECURSIVE Flatten(_)
Flatten(ss) == IF ss = <<>> THEN <<>> ELSE Head(ss) \o Flatten(Tail(ss))

Range(s) == {s[i] : i \in 1..Len(s)}

HexChars == {"0","1","2","3","4","5","6","7","8","9",
             "a","b","c","d","e","f","A","B","C","D","E","F"}

LineTerminators == {"\n", "\r"}

(***************************************************************************)
(* parseActionReference(uses). The regular expression of the source is     *)
(* anchored at both ends and reads: a group of one or more characters      *)
(* other than "/" (owner), a "/", a group of one or more characters other  *)
(* than "/" and "@" (repo), optionally a "/" followed by any number of     *)
(* characters other than "@" (the sub-path), an "@", and a group of one or *)
(* more characters other than line terminators (ref).  It is matched here  *)
(* as a backtracking matcher matches it: owner is the text before the      *)
(* first "/", repo the longest run without "/" and "@" after it, the       *)
(* sub-path runs to the next "@", and ref is the non-empty rest.           *)
(* NoRef stands for null.                                                  *)
(***************************************************************************)
NoRef == [none |-> TRUE]

\* the regular expression with repo running up to the "@", the sub-path kept
MatchReferenceKeepingSubPath(uses) ==
    LET slash == IndexOf(uses, "/", 1) IN
    IF slash <= 1 THEN NoRef
    ELSE
      LET repoEnd == CHOOSE k \in slash..Len(uses) :
                        /\ \A j \in (slash + 1)..k : uses[j] \notin {"/", "@"}
                        /\ (k = Len(uses) \/ uses[k + 1] \in {"/", "@"})
          at      == IndexOf(uses, "@", repoEnd + 1)
      IN
      IF repoEnd = slash \/ at = 0 \/ at = Len(uses) THEN NoRef
      ELSE IF \E j \in (at + 1)..Len(uses) : uses[j] \in LineTerminators THEN NoRef
      ELSE [owner |-> SubSeq(uses, 1, slash - 1),
            repo  |-> SubSeq(uses, slash + 1, at - 1),
            ref   |-> SubSeq(uses, at + 1, Len(uses))]

\* uses.match(...) and the destructuring of its groups
MatchReference(uses) ==
    LET slash == IndexOf(uses, "/", 1) IN
    IF slash <= 1 THEN NoRef
    ELSE
      LET repoEnd == CHOOSE k \in slash..Len(uses) :
                        /\ \A j \in (slash + 1)..k : uses[j] \notin {"/", "@"}
                        /\ (k = Len(uses) \/ uses[k + 1] \in {"/", "@"})
          at      == IndexOf(uses, "@", repoEnd + 1)
      IN
      IF repoEnd = slash \/ at = 0 \/ at = Len(uses) THEN NoRef
      ELSE IF \E j \in (at + 1)..Len(uses) : uses[j] \in LineTerminators THEN NoRef
      ELSE [owner |-> SubSeq(uses, 1, slash - 1),
            repo  |-> SubSeq(uses, slash + 1, repoEnd),
            ref   |-> SubSeq(uses, at + 1, Len(uses))]

\* without the check for local actions
parseActionReferenceWithoutLocalCheck(uses) ==
    IF uses = <<>> THEN NoRef
    ELSE IF Includes(uses, <<":", "/", "/">>) THEN NoRef
    ELSE MatchReference(uses)

parseActionReference(uses) ==
    IF uses = <<>> THEN NoRef
    ELSE IF StartsWith(uses, <<".", "/">>) THEN NoRef
    ELSE IF Includes(uses, <<":", "/", "/">>) THEN NoRef
    ELSE MatchReference(uses)

\* the function applied to any value: a string is [type |-> "string", chars |-> ...]
StringValue(chars) == [type |-> "string", chars |-> chars]

parseActionReferenceOfValue(value) ==
    IF value.type # "string" THEN NoRef ELSE parseActionReference(value.chars)

(***************************************************************************)
(* shouldExcludeAction(owner)                                              *)
(***************************************************************************)
sActions == <<"a","c","t","i","o","n","s">>
sGithub  == <<"g","i","t","h","u","b">>
sOctokit == <<"o","c","t","o","k","i","t">>

shouldExcludeActionWithoutOctokit(owner) == owner = sActions \/ owner = sGithub

shouldExcludeActionOnlyActions(owner) == owner = sActions

shouldExcludeAction(owner) == owner = sActions \/ owner = sGithub \/ owner = sOctokit

(***************************************************************************)
(* isFullSHA(ref): exactly 40 characters of a-f, 0-9, case-insensitive     *)
(***************************************************************************)
ShaLength == 40

\* the pattern without its case-insensitive flag
isFullSHALowerCaseOnly(ref) ==
    Len(ref) = ShaLength /\ \A i \in 1..Len(ref) : ref[i] \in HexChars \ {"A","B","C","D","E","F"}

\* the pattern without its end anchor
isFullSHAUnanchored(ref) ==
    Len(ref) >= ShaLength /\ \A i \in 1..ShaLength : ref[i] \in HexChars

isFullSHA(ref) == Len(ref) = ShaLength /\ \A i \in 1..Len(ref) : ref[i] \in HexChars

(***************************************************************************)
(* Object.entries(obj): the own keys of a JavaScript object come with the  *)
(* array-index keys first, in ascending numeric order, then the other keys *)
(* in insertion order.                                                     *)
(***************************************************************************)
Digits == <<"0","1","2","3","4","5","6","7","8","9">>

DigitValue(c) == (CHOOSE i \in 1..Len(Digits) : Digits[i] = c) - 1

\* a < b for canonical decimal numerals (no leading zero): shorter is less,
\* and of two of one length the one with the smaller digit where they first differ
NumeralLess(a, b) ==
    \/ Len(a) < Len(b)
    \/ /\ Len(a) = Len(b)
       /\ \E i \in 1..Len(a) :
            /\ DigitValue(a[i]) < DigitValue(b[i])
            /\ \A j \in 1..(i - 1) : a[j] = b[j]

\* 2^32 - 1, the first number that is not an array index
MaxArrayLength == <<"4","2","9","4","9","6","7","2","9","5">>

IsArrayIndex(key) ==
    /\ Len(key) >= 1
    /\ \A i \in 1..Len(key) : key[i] \in Range(Digits)
    /\ (Len(key) = 1 \/ key[1] # "0")
    /\ NumeralLess(key, MaxArrayLength)

RECURSIVE SortByNumericKey(_)
SortByNumericKey(entries) ==
    IF entries = <<>> THEN <<>>
    ELSE LET m == CHOOSE i \in 1..Len(entries) :
                     \A j \in 1..Len(entries) : ~NumeralLess(entries[j].key, entries[i].key)
         IN <<entries[m]>> \o
            SortByNumericKey(SelectSeqIdx(entries, LAMBDA i : i # m))

\* entries: sequence of [key, value] with distinct keys, in insertion order
ObjectEntries(entries) ==
    SortByNumericKey(SelectSeqIdx(entries, LAMBDA i : IsArrayIndex(entries[i].key)))
    \o SelectSeqIdx(entries, LAMBDA i : ~IsArrayIndex(entries[i].key))

(***************************************************************************)
(* extractActionsFromWorkflow(workflowPath).  A workflow path is           *)
(* <<directory, basename>>; the file's content is doc: [ok |-> FALSE] when *)
(* reading or YAML.parse throws, else [ok |-> TRUE, jobs |-> the jobs      *)
(* mapping as a sequence of [key, value] in the order written], a job      *)
(* value being the sequence of its steps and a step a record with the      *)
(* optional fields uses and name.                                          *)
(***************************************************************************)
Basename(path) == path[2]

StepUses(step) == IF "uses" \in DOMAIN step THEN step.uses ELSE <<>>

StepName(step) ==
    IF "name" \in DOMAIN step /\ step.name # "" THEN step.name ELSE "unnamed step"

\* parsed is the one value of const parsed = parseActionReference(step.uses)
ActionOfStep(step, workflowFile, jobName) ==
    CHOOSE found \in
      { IF parsed = NoRef THEN <<>>
        ELSE << [uses         |-> step.uses,
                 owner        |-> parsed.owner,
                 repo         |-> parsed.repo,
                 ref          |-> parsed.ref,
                 workflowFile |-> workflowFile,
                 jobName      |-> jobName,
                 stepName     |-> StepName(step),
                 isFirstParty |-> shouldExcludeAction(parsed.owner)] >>
        : parsed \in {parseActionReference(StepUses(step))} } : TRUE

ActionsOfJob(job, workflowFile) ==
    Flatten([i \in 1..Len(job.value) |-> ActionOfStep(job.value[i], workflowFile, job.key)])

ParseWarning(path) == [text |-> "Failed to parse workflow", path |-> path]

\* job.steps is a value the for-of loop cannot iterate (a number, a mapping)
StepsNotIterable(job) == "notIterable" \in DOMAIN job

\* only reading and parsing can fail
ExtractionThrowsOnlyOnParse(doc) == ~doc.ok

\* the try block throws: reading or parsing failed, or the loops met such a job
ExtractionThrows(doc) ==
    \/ ~doc.ok
    \/ \E j \in 1..Len(doc.jobs) : StepsNotIterable(doc.jobs[j])

\* returns [actions, warnings]; jobs is the one value of Object.entries(workflow.jobs)
extractActionsFromWorkflow(path, doc) ==
    IF ExtractionThrows(doc)
    THEN [actions |-> <<>>, warnings |-> <<ParseWarning(path)>>]
    ELSE CHOOSE got \in
           { [actions  |-> Flatten([j \in 1..Len(jobs) |->
                                      ActionsOfJob(jobs[j], Basename(path))]),
              warnings |-> <<>>] : jobs \in {ObjectEntries(doc.jobs)} } : TRUE

(***************************************************************************)
(* checkReleaseImmutability(octokit, owner, repo, ref)                     *)
(*                                                                         *)
(* A settled getReleaseByTag call is one of                                *)
(*   [kind |-> "resolved", data |-> TRUE, immutable |-> f]  a release whose*)
(*       immutable property is true ("true"), false ("false"), missing     *)
(*       ("absent") or a non-boolean value such as the string 'true'       *)
(*       ("other");                                                        *)
(*   [kind |-> "resolved", data |-> FALSE]  a response with no data object *)
(*       (reading release.immutable throws a TypeError inside the try);    *)
(*   [kind |-> "rejected", object |-> TRUE, status, message]  a thrown     *)
(*       object; status 0 stands for no status property and message        *)
(*       "undefined" for no message property (what the template prints);   *)
(*   [kind |-> "rejected", object |-> FALSE]  a thrown null or undefined.  *)
(***************************************************************************)
ShaResult ==
    [immutable |-> TRUE, releaseFound |-> FALSE, message |-> "Immutable (full SHA reference)"]

\* release.immutable tested for truthiness instead of === true
ReleaseResultTruthy(flag) ==
    LET isImmutable == (flag \in {"true", "other"}) IN
    [immutable    |-> isImmutable,
     releaseFound |-> TRUE,
     message      |-> IF isImmutable THEN "Immutable release" ELSE "Mutable release"]

ReleaseResult(flag) ==
    LET isImmutable == (flag = "true") IN
    [immutable    |-> isImmutable,
     releaseFound |-> TRUE,
     message      |-> IF isImmutable THEN "Immutable release" ELSE "Mutable release"]

NotFoundResult ==
    [immutable |-> FALSE, releaseFound |-> FALSE,
     message |-> "No release found for this reference"]

ApiErrorResultAsImmutable(detail) ==
    [immutable |-> TRUE, releaseFound |-> FALSE, message |-> "API error: " \o detail]

ApiErrorResult(detail) ==
    [immutable |-> FALSE, releaseFound |-> FALSE, message |-> "API error: " \o detail]

ApiWarning(req, detail) ==
    [text |-> "API error checking", owner |-> req.owner, repo |-> req.repo,
     ref |-> req.tag, detail |-> detail]

TypeErrorNoData == [object |-> TRUE, status |-> 0,
                    message |-> "Cannot read properties of undefined (reading 'immutable')"]

TypeErrorNoError == [object |-> TRUE, status |-> 0,
                     message |-> "Cannot read properties of null (reading 'status')"]

\* the catch block at the end of checkReleaseImmutability, entered with error
CatchLookupErrorWithoutWarning(req, error) ==
    IF ~error.object
    THEN [threw |-> TRUE, error |-> TypeErrorNoError, warnings |-> <<>>]
    ELSE IF error.status = 404
    THEN [threw |-> FALSE, result |-> NotFoundResult, warnings |-> <<>>]
    ELSE [threw |-> FALSE, result |-> ApiErrorResult(error.message), warnings |-> <<>>]

CatchLookupError(req, error) ==
    IF ~error.object
    THEN [threw |-> TRUE, error |-> TypeErrorNoError, warnings |-> <<>>]
    ELSE IF error.status = 404
    THEN [threw |-> FALSE, result |-> NotFoundResult, warnings |-> <<>>]
    ELSE [threw |-> FALSE, result |-> ApiErrorResult(error.message),
          warnings |-> <<ApiWarning(req, error.message)>>]

\* the try block after the await, and the catch block: what the call returns
SettleLookup(req, resp) ==
    IF resp.kind = "resolved"
    THEN IF resp.data
         THEN [threw |-> FALSE, result |-> ReleaseResult(resp.immutable), warnings |-> <<>>]
         ELSE CatchLookupError(req, TypeErrorNoData)
    ELSE CatchLookupError(req, resp)

LookupRequest(action) == [owner |-> action.owner, repo |-> action.repo, tag |-> action.ref]

\* a request as the call log keeps it: with the uses string it was made for
LoggedCall(action) ==
    [uses |-> action.uses, owner |-> action.owner, repo |-> action.repo, tag |-> action.ref]

(***************************************************************************)
(* getInput(name), getBooleanInput(name).  inputs.native[name] is what     *)
(* core.getInput returns and inputs.env[name] the INPUT_<NAME> environment *)
(* variable, "" standing for unset.                                        *)
(***************************************************************************)
UpperCase == <<"A","B","C","D","E","F","G","H","I","J","K","L","M",
               "N","O","P","Q","R","S","T","U","V","W","X","Y","Z">>
LowerCase == <<"a","b","c","d","e","f","g","h","i","j","k","l","m",
               "n","o","p","q","r","s","t","u","v","w","x","y","z">>

ToLowerChar(c) ==
    IF c \in Range(UpperCase)
    THEN LowerCase[CHOOSE i \in 1..Len(UpperCase) : UpperCase[i] = c]
    ELSE c

ToLowerCase(s) == [i \in 1..Len(s) |-> ToLowerChar(s[i])]

\* core.getInput alone, without the environment fallback
getInputWithoutFallback(in, name) == in.native[name]

getInput(in, name) == IF in.native[name] # <<>> THEN in.native[name] ELSE in.env[name]

getBooleanInput(in, name) ==
    ToLowerCase(getInput(in, name)) \in {<<"t","r","u","e">>, <<"1">>, <<"y","e","s">>}

(***************************************************************************)
(* getWorkflowFiles(workflowsInput, excludeWorkflowsInput, workspaceDir)   *)
(***************************************************************************)
WorkflowsDir == <<".","g","i","t","h","u","b","/","w","o","r","k","f","l","o","w","s">>

RECURSIVE SplitComma(_)
SplitComma(s) ==
    LET c == IndexOf(s, ",", 1) IN
    IF c = 0 THEN <<s>>
    ELSE <<SubSeq(s, 1, c - 1)>> \o SplitComma(SubSeq(s, c + 1, Len(s)))

WhiteSpace == {" ", "\t", "\n", "\r"}

RECURSIVE Trim(_)
Trim(s) ==
    IF s = <<>> THEN s
    ELSE IF s[1] \in WhiteSpace THEN Trim(Tail(s))
    ELSE IF s[Len(s)] \in WhiteSpace THEN Trim(SubSeq(s, 1, Len(s) - 1))
    ELSE s

\* input.split(',').map(w => w.trim()).filter(Boolean)
NameList(input) ==
    LET parts == SplitComma(input)
        trimmed == [i \in 1..Len(parts) |-> Trim(parts[i])]
    IN SelectSeq(trimmed, LAMBDA w : w # <<>>)

FileExists(ws, name) == \E i \in 1..Len(ws.files) : ws.files[i].name = name

IsWorkflowFileName(f) ==
    EndsWith(f, <<".","y","m","l">>) \/ EndsWith(f, <<".","y","a","m","l">>)

\* the exclusions applied to the specified workflows as well
getWorkflowFilesMergingFilters(workflowsInput, excludeWorkflowsInput, ws) ==
    LET excludes == IF excludeWorkflowsInput # <<>>
                    THEN Range(NameList(excludeWorkflowsInput)) ELSE {}
    IN
    IF ~ws.dirExists
    THEN [files |-> <<>>,
          warnings |-> <<[text |-> "Workflows directory not found", path |-> WorkflowsDir]>>]
    ELSE IF workflowsInput # <<>>
    THEN LET specified == SelectSeq(NameList(workflowsInput), LAMBDA w : w \notin excludes)
             found     == SelectSeq(specified, LAMBDA w : FileExists(ws, w))
             missing   == SelectSeq(specified, LAMBDA w : ~FileExists(ws, w))
         IN [files    |-> [i \in 1..Len(found) |-> <<WorkflowsDir, found[i]>>],
             warnings |-> [i \in 1..Len(missing) |->
                             [text |-> "Specified workflow file not found",
                              path |-> missing[i]]]]
    ELSE LET allFiles == [i \in 1..Len(ws.files) |-> ws.files[i].name]
             yamls    == SelectSeq(allFiles, IsWorkflowFileName)
             kept     == SelectSeq(yamls, LAMBDA f : f \notin excludes)
         IN [files    |-> [i \in 1..Len(kept) |-> <<WorkflowsDir, kept[i]>>],
             warnings |-> <<>>]

\* returns [files, warnings]
getWorkflowFiles(workflowsInput, excludeWorkflowsInput, ws) ==
    IF ~ws.dirExists
    THEN [files |-> <<>>,
          warnings |-> <<[text |-> "Workflows directory not found", path |-> WorkflowsDir]>>]
    ELSE IF workflowsInput # <<>>
    THEN LET specified == NameList(workflowsInput)
             found     == SelectSeq(specified, LAMBDA w : FileExists(ws, w))
             missing   == SelectSeq(specified, LAMBDA w : ~FileExists(ws, w))
         IN [files    |-> [i \in 1..Len(found) |-> <<WorkflowsDir, found[i]>>],
             warnings |-> [i \in 1..Len(missing) |->
                             [text |-> "Specified workflow file not found",
                              path |-> missing[i]]]]
    ELSE LET allFiles == [i \in 1..Len(ws.files) |-> ws.files[i].name]
             yamls    == SelectSeq(allFiles, IsWorkflowFileName)
             excludes == IF excludeWorkflowsInput # <<>>
                         THEN Range(NameList(excludeWorkflowsInput)) ELSE {}
             kept     == SelectSeq(yamls, LAMBDA f : f \notin excludes)
         IN [files    |-> [i \in 1..Len(kept) |-> <<WorkflowsDir, kept[i]>>],
             warnings |-> <<>>]

\* fs.readFileSync + YAML.parse of a discovered path
DocOf(ws, path) ==
    ws.files[CHOOSE i \in 1..Len(ws.files) : ws.files[i].name = Basename(path)].doc

(***************************************************************************)
(* checkAllActions(octokit, actions)                                       *)
(***************************************************************************)
\* Array.from(new Map(list.map(a => [a.uses, a])).values()) without the Map
KeepEveryOccurrence(list) == list

\* a key moved to the position of its last occurrence
DedupAtLastPosition(list) ==
    SelectSeqIdx(list, LAMBDA i : \A j \in (i + 1)..Len(list) : list[j].uses # list[i].uses)

\* Array.from(new Map(list.map(a => [a.uses, a])).values()): a key keeps the
\* position of its first occurrence and the value of its last one
DedupByUses(list) ==
    LET first == SelectSeqIdx([i \in 1..Len(list) |-> i],
                     LAMBDA i : \A j \in 1..(i - 1) : list[j].uses # list[i].uses)
        LastOf(i) == CHOOSE j \in i..Len(list) :
                        /\ list[j].uses = list[i].uses
                        /\ \A k \in (j + 1)..Len(list) : list[k].uses # list[i].uses
    IN [n \in 1..Len(first) |-> list[LastOf(first[n])]]

FirstPartyResult ==
    [immutable |-> TRUE, releaseFound |-> FALSE, message |-> "First-party action"]

FirstPartyInfo(action) ==
    [uses |-> action.uses, owner |-> action.owner, repo |-> action.repo,
     ref |-> action.ref, isFirstParty |-> TRUE, immutable |-> TRUE,
     releaseFound |-> FALSE, message |-> "First-party action"]

ThirdPartyInfo(action, result) ==
    [uses |-> action.uses, owner |-> action.owner, repo |-> action.repo,
     ref |-> action.ref, isFirstParty |-> FALSE, immutable |-> result.immutable,
     releaseFound |-> result.releaseFound, message |-> result.message]

WorkflowInfo(action, cachedResult) ==
    [uses |-> action.uses, owner |-> action.owner, repo |-> action.repo,
     ref |-> action.ref, workflowFile |-> action.workflowFile,
     isFirstParty |-> action.isFirstParty, immutable |-> cachedResult.immutable,
     releaseFound |-> cachedResult.releaseFound, message |-> cachedResult.message]

\* Map.prototype.set / get / has on a sequence of [key, value]
MapHas(m, k) == \E i \in 1..Len(m) : m[i].key = k

MapGet(m, k) == m[CHOOSE i \in 1..Len(m) : m[i].key = k].value

MapSet(m, k, v) ==
    IF MapHas(m, k)
    THEN [i \in 1..Len(m) |-> IF m[i].key = k THEN [key |-> k, value |-> v] ELSE m[i]]
    ELSE Append(m, [key |-> k, value |-> v])

\* the first-party loop: the flat firstParty list and the cache it leaves
FirstPartyPass(actions) ==
    LET uniqueFirstPartyActions == DedupByUses(SelectSeq(actions, LAMBDA a : a.isFirstParty))
        CacheAfter[i \in 0..Len(uniqueFirstPartyActions)] ==
            IF i = 0 THEN <<>>
            ELSE MapSet(CacheAfter[i - 1], uniqueFirstPartyActions[i].uses, FirstPartyResult)
    IN [firstParty |-> [i \in 1..Len(uniqueFirstPartyActions) |->
                           FirstPartyInfo(uniqueFirstPartyActions[i])],
        cache      |-> CacheAfter[Len(uniqueFirstPartyActions)],
        writes     |-> [i \in 1..Len(uniqueFirstPartyActions) |->
                           uniqueFirstPartyActions[i].uses]]

UniqueThirdParty(actions) == DedupByUses(SelectSeq(actions, LAMBDA a : ~a.isFirstParty))

\* actionsByWorkflow: the input grouped by workflowFile, keys in insertion order
GroupByWorkflowFile(actions) ==
    LET G[i \in 0..Len(actions)] ==
            IF i = 0 THEN <<>>
            ELSE LET f == actions[i].workflowFile IN
                 MapSet(G[i - 1], f,
                        Append(IF MapHas(G[i - 1], f) THEN MapGet(G[i - 1], f) ELSE <<>>,
                               actions[i]))
    IN G[Len(actions)]

\* the category taken from the cached outcome alone
WorkflowViewByOutcomeOnly(workflowActions, cached) ==
    LET uniqueWorkflowActions == DedupByUses(workflowActions)
        infos == [i \in 1..Len(uniqueWorkflowActions) |->
                    WorkflowInfo(uniqueWorkflowActions[i],
                                 MapGet(cached, uniqueWorkflowActions[i].uses))]
    IN [firstParty |-> <<>>,
        immutable  |-> SelectSeq(infos, LAMBDA a : a.immutable),
        mutable    |-> SelectSeq(infos, LAMBDA a : ~a.immutable)]

\* one value of byWorkflow: the file's de-duplicated actions by category
WorkflowView(workflowActions, cached) ==
    LET uniqueWorkflowActions == DedupByUses(workflowActions)
        infos == [i \in 1..Len(uniqueWorkflowActions) |->
                    WorkflowInfo(uniqueWorkflowActions[i],
                                 MapGet(cached, uniqueWorkflowActions[i].uses))]
    IN [firstParty |-> SelectSeq(infos, LAMBDA a : a.isFirstParty),
        immutable  |-> SelectSeq(infos, LAMBDA a : ~a.isFirstParty /\ a.immutable),
        mutable    |-> SelectSeq(infos, LAMBDA a : ~a.isFirstParty /\ ~a.immutable)]

\* groups is the one value of Object.entries(actionsByWorkflow)
BuildByWorkflow(actions, cached) ==
    CHOOSE views \in
      { [i \in 1..Len(groups) |->
            [key |-> groups[i].key, value |-> WorkflowView(groups[i].value, cached)]]
        : groups \in {ObjectEntries(GroupByWorkflowFile(actions))} } : TRUE

(***************************************************************************)
(* run(): the decisions taken on the aggregated lists                      *)
(***************************************************************************)
AllPassedAlways(mutableList) == TRUE

\* core.setOutput('all-passed', mutable.length === 0)
AllPassed(mutableList) == Len(mutableList) = 0

ShouldFailIgnoringPolicy(policy, mutableList) == Len(mutableList) > 0

\* if (failOnMutable && mutable.length > 0) core.setFailed(...)
ShouldFail(policy, mutableList) == policy /\ Len(mutableList) > 0

\* JSON.stringify(value): the JSON text, kept as the value it encodes
Json(value) == [json |-> value]

Basenames(paths) == [i \in 1..Len(paths) |-> Basename(paths[i])]

OutputSet(outs, name) == \E i \in 1..Len(outs) : outs[i].name = name

\* the value of the last core.setOutput(name, ...)
OutputValue(outs, name) ==
    outs[CHOOSE i \in 1..Len(outs) :
            outs[i].name = name /\ \A j \in (i + 1)..Len(outs) : outs[j].name # name].value

(***************************************************************************)
(* The inputs the model is run on.                                         *)
(***************************************************************************)
sToken == <<"t","o","k">>
sTrue  == <<"t","r","u","e">>
sFalse == <<"f","a","l","s","e">>
sBuild == <<"b","u","i","l","d">>
sCiYml  == <<"c","i",".","y","m","l">>
sDYaml  == <<"d",".","y","a","m","l">>

\* a 40-character hexadecimal ref in mixed case
Sha40 == [i \in 1..ShaLength |-> <<"1","a","B","f">>[(i % 4) + 1]]

uCheckout  == sActions \o <<"/","c","@","v","4">>
uGithubSha == sGithub \o <<"/","r","@">> \o Sha40
uTag       == <<"o","/","r","@","v","1">>
uSubPath   == <<"o","/","r","/","p","@","v","1">>
uSha       == <<"o","/","r","@">> \o Sha40

StepPool ==
    { [uses |-> uCheckout],
      [uses |-> uGithubSha, name |-> "Scan"],
      [uses |-> uTag, name |-> "Build"],
      [uses |-> uSubPath],
      [uses |-> uSha, name |-> "Pin"] }

StepLists(n) == UNION {[1..k -> StepPool] : k \in 0..n}

InputNames == {"github-token", "fail-on-mutable", "workflows", "exclude-workflows"}

NoInput == [n \in InputNames |-> <<>>]

\* the inputs given natively, with or without a token, or through the
\* INPUT_ environment variables only
InputConfigs ==
    { [native |-> [NoInput EXCEPT !["github-token"] = t, !["fail-on-mutable"] = f],
       env    |-> NoInput] : t \in {sToken, <<>>}, f \in {sTrue, sFalse} }
    \cup { [native |-> NoInput,
            env    |-> [NoInput EXCEPT !["github-token"] = sToken,
                                      !["fail-on-mutable"] = sTrue]] }

\* the content of a workflow file: unreadable, or one job with the given steps
BadDoc == [ok |-> FALSE]
DocWith(steps) == [ok |-> TRUE, jobs |-> <<[key |-> sBuild, value |-> steps]>>]

\* a job with a step, then a job whose steps value is a number
sDeploy == <<"d","e","p","l","o","y">>
BrokenDoc ==
    [ok |-> TRUE,
     jobs |-> <<[key |-> sBuild, value |-> <<[uses |-> uTag, name |-> "Build"]>>],
                [key |-> sDeploy, value |-> <<>>, notIterable |-> TRUE]>>]

Workspaces ==
    { [dirExists |-> FALSE, files |-> <<>>], [dirExists |-> TRUE, files |-> <<>>] }
    \cup { [dirExists |-> TRUE, files |-> <<[name |-> sCiYml, doc |-> BrokenDoc]>>] }
    \cup { [dirExists |-> TRUE,
            files |-> <<[name |-> sCiYml, doc |-> d1],
                        [name |-> sDYaml, doc |-> DocWith(<<st>>)]>>] :
              d1 \in {BadDoc, BrokenDoc}, st \in StepPool }
    \cup { [dirExists |-> TRUE, files |-> <<[name |-> sCiYml, doc |-> d]>>] :
             d \in {BadDoc} \cup {DocWith(s) : s \in StepLists(MaxSteps)} }
    \cup UNION { { [dirExists |-> TRUE,
                    files |-> <<[name |-> sCiYml, doc |-> DocWith(s1)],
                                [name |-> sDYaml, doc |-> d2]>>] :
                     d2 \in {BadDoc} \cup {DocWith(s2) :
                                s2 \in StepLists(IF Len(s1) < MaxSteps THEN 1 ELSE 0)} } :
                 s1 \in StepLists(MaxSteps) }

\* what the Octokit client built by run() settles a getReleaseByTag call with
OctokitResponses ==
    { [kind |-> "resolved", data |-> TRUE, immutable |-> f] :
        f \in {"true", "false", "absent", "other"} }
    \cup { [kind |-> "rejected", object |-> TRUE, status |-> 404, message |-> "Not Found"],
           [kind |-> "rejected", object |-> TRUE, status |-> 500, message |-> "Server Error"] }

NoResponse == [kind |-> "none"]

NotApplied == [state |-> "none"]

Init ==
    /\ inputs \in InputConfigs
    /\ workspace \in Workspaces
    /\ pc = "start"
    /\ failOnMutable = FALSE
    /\ workflowFiles = <<>>
    /\ fileIdx = 1
    /\ allActions = <<>>
    /\ uniqueActions = <<>>
    /\ actIdx = 1
    /\ cache = <<>>
    /\ mutable = <<>>
    /\ immutable = <<>>
    /\ firstParty = <<>>
    /\ byWorkflow = <<>>
    /\ inflight = <<>>
    /\ lastResponse = NoResponse
    /\ calls = <<>>
    /\ cacheWrites = <<>>
    /\ outputs = <<>>
    /\ failed = <<>>
    /\ warnings = <<>>
    /\ summary = "none"
    /\ fnArgs = <<>>
    /\ fnOut = NotApplied

(***************************************************************************)
(* run()                                                                   *)
(***************************************************************************)
Out(name, value) == [name |-> name, value |-> value]

\* reading the four inputs and the token check
ReadInputs ==
    /\ pc = "start"
    /\ failOnMutable' = getBooleanInput(inputs, "fail-on-mutable")
    /\ IF getInput(inputs, "github-token") = <<>>
       THEN /\ failed' = Append(failed, "github-token is required (defaults to github.token)")
            /\ pc' = "done"
       ELSE /\ failed' = failed
            /\ pc' = "discover"
    /\ UNCHANGED <<inputs, workspace, workflowFiles, fileIdx, allActions, uniqueActions,
                   actIdx, cache, mutable, immutable, firstParty, byWorkflow, inflight,
                   lastResponse, calls, cacheWrites, outputs, warnings, summary>>
    /\ UNCHANGED fnVars

\* getWorkflowFiles and the early return when it finds nothing
GetWorkflowFiles ==
    /\ pc = "discover"
    /\ LET found == getWorkflowFiles(getInput(inputs, "workflows"),
                                     getInput(inputs, "exclude-workflows"), workspace)
       IN /\ workflowFiles' = found.files
          /\ IF Len(found.files) = 0
             THEN /\ warnings' = warnings \o found.warnings
                                   \o <<[text |-> "No workflow files found to check"]>>
                  /\ outputs' = outputs \o <<Out("all-passed", TRUE),
                                             Out("workflows-checked", Json(<<>>)),
                                             Out("mutable-actions", Json(<<>>)),
                                             Out("immutable-actions", Json(<<>>))>>
                  /\ pc' = "done"
             ELSE /\ warnings' = warnings \o found.warnings
                  /\ outputs' = outputs
                  /\ pc' = "parse"
    /\ UNCHANGED <<inputs, workspace, failOnMutable, fileIdx, allActions, uniqueActions,
                   actIdx, cache, mutable, immutable, firstParty, byWorkflow, inflight,
                   lastResponse, calls, cacheWrites, failed, summary>>
    /\ UNCHANGED fnVars

\* one iteration of the loop over workflowFiles
ParseWorkflow ==
    /\ pc = "parse"
    /\ fileIdx <= Len(workflowFiles)
    /\ LET path == workflowFiles[fileIdx]
           got  == extractActionsFromWorkflow(path, DocOf(workspace, path))
       IN /\ allActions' = allActions \o got.actions
          /\ warnings' = warnings \o got.warnings
    /\ fileIdx' = fileIdx + 1
    /\ UNCHANGED <<inputs, workspace, pc, failOnMutable, workflowFiles, uniqueActions,
                   actIdx, cache, mutable, immutable, firstParty, byWorkflow, inflight,
                   lastResponse, calls, cacheWrites, outputs, failed, summary>>
    /\ UNCHANGED fnVars

\* the early return taken as a failure under fail-on-mutable
NoActionsFoundFailingUnderPolicy ==
    /\ pc = "parse"
    /\ fileIdx > Len(workflowFiles)
    /\ allActions = <<>>
    /\ outputs' = outputs \o <<Out("all-passed", TRUE),
                               Out("workflows-checked", Json(Basenames(workflowFiles))),
                               Out("mutable-actions", Json(<<>>)),
                               Out("immutable-actions", Json(<<>>))>>
    /\ \E written \in BOOLEAN : summary' = IF written THEN "written" ELSE "fallback"
    /\ failed' = IF failOnMutable THEN Append(failed, "No actions found") ELSE failed
    /\ pc' = "done"
    /\ UNCHANGED <<inputs, workspace, failOnMutable, workflowFiles, fileIdx, allActions,
                   uniqueActions, actIdx, cache, mutable, immutable, firstParty,
                   byWorkflow, inflight, lastResponse, calls, cacheWrites, warnings>>
    /\ UNCHANGED fnVars

\* the early return when no file holds an action, with its summary
NoActionsFound ==
    /\ pc = "parse"
    /\ fileIdx > Len(workflowFiles)
    /\ allActions = <<>>
    /\ outputs' = outputs \o <<Out("all-passed", TRUE),
                               Out("workflows-checked", Json(Basenames(workflowFiles))),
                               Out("mutable-actions", Json(<<>>)),
                               Out("immutable-actions", Json(<<>>))>>
    /\ \E written \in BOOLEAN : summary' = IF written THEN "written" ELSE "fallback"
    /\ pc' = "done"
    /\ UNCHANGED <<inputs, workspace, failOnMutable, workflowFiles, fileIdx, allActions,
                   uniqueActions, actIdx, cache, mutable, immutable, firstParty,
                   byWorkflow, inflight, lastResponse, calls, cacheWrites, failed,
                   warnings>>
    /\ UNCHANGED fnVars

\* checkAllActions up to its first await: the partition, the first-party loop
\* and the de-duplication of the third-party actions
\* the result lists kept from one call to the next
EnterCheckAllActionsKeepingLists ==
    /\ LET fp == FirstPartyPass(allActions)
       IN /\ firstParty' = fp.firstParty
          /\ cache' = fp.cache
          /\ cacheWrites' = fp.writes
    /\ uniqueActions' = UniqueThirdParty(allActions)
    /\ actIdx' = 1
    /\ mutable' = mutable
    /\ immutable' = immutable
    /\ byWorkflow' = <<>>

\* immutabilityCache kept at module level: one Map for every call
EnterCheckAllActionsSharingCache ==
    /\ LET fp == FirstPartyPass(allActions)
           CacheAfter[i \in 0..Len(fp.writes)] ==
               IF i = 0 THEN cache
               ELSE MapSet(CacheAfter[i - 1], fp.writes[i], FirstPartyResult)
       IN /\ firstParty' = fp.firstParty
          /\ cache' = CacheAfter[Len(fp.writes)]
          /\ cacheWrites' = cacheWrites \o fp.writes
    /\ uniqueActions' = UniqueThirdParty(allActions)
    /\ actIdx' = 1
    /\ mutable' = <<>>
    /\ immutable' = <<>>
    /\ byWorkflow' = <<>>

\* the locals of checkAllActions, the partition, the first-party loop and the
\* de-duplication of the third-party actions
EnterCheckAllActions ==
    /\ LET fp == FirstPartyPass(allActions)
       IN /\ firstParty' = fp.firstParty
          /\ cache' = fp.cache
          /\ cacheWrites' = fp.writes
    /\ uniqueActions' = UniqueThirdParty(allActions)
    /\ actIdx' = 1
    /\ mutable' = <<>>
    /\ immutable' = <<>>
    /\ byWorkflow' = <<>>

BeginCheckAllActions ==
    /\ pc = "parse"
    /\ fileIdx > Len(workflowFiles)
    /\ allActions # <<>>
    /\ EnterCheckAllActions
    /\ pc' = "check"
    /\ UNCHANGED <<inputs, workspace, failOnMutable, workflowFiles, fileIdx, allActions,
                   inflight, lastResponse, calls, outputs, failed, warnings, summary>>
    /\ UNCHANGED fnVars

\* the loop body after checkReleaseImmutability returned result for action
Classified(action, result) ==
    /\ cache' = MapSet(cache, action.uses, result)
    /\ cacheWrites' = Append(cacheWrites, action.uses)
    /\ IF result.immutable
       THEN /\ immutable' = Append(immutable, ThirdPartyInfo(action, result))
            /\ mutable' = mutable
       ELSE /\ mutable' = Append(mutable, ThirdPartyInfo(action, result))
            /\ immutable' = immutable
    /\ actIdx' = actIdx + 1

\* one iteration for a ref that is a full SHA: no request is made
ResolveFullSHA ==
    /\ pc = "check"
    /\ actIdx <= Len(uniqueActions)
    /\ isFullSHA(uniqueActions[actIdx].ref)
    /\ Classified(uniqueActions[actIdx], ShaResult)
    /\ UNCHANGED <<inputs, workspace, pc, failOnMutable, workflowFiles, fileIdx,
                   allActions, uniqueActions, firstParty, byWorkflow, inflight,
                   calls, outputs, failed, warnings, summary>>
    /\ UNCHANGED fnVars
    /\ lastResponse' = NoResponse

\* one iteration for any other ref, up to the await of getReleaseByTag
CallGetReleaseByTag ==
    /\ pc = "check"
    /\ actIdx <= Len(uniqueActions)
    /\ ~isFullSHA(uniqueActions[actIdx].ref)
    /\ inflight' = Append(inflight, LookupRequest(uniqueActions[actIdx]))
    /\ calls' = Append(calls, LoggedCall(uniqueActions[actIdx]))
    /\ pc' = "await"
    /\ UNCHANGED <<inputs, workspace, failOnMutable, workflowFiles, fileIdx, allActions,
                   uniqueActions, actIdx, cache, mutable, immutable, firstParty,
                   byWorkflow, cacheWrites, outputs, failed, warnings,
                   summary>>
    /\ UNCHANGED fnVars
    /\ lastResponse' = NoResponse

\* the awaited call settles: the rest of checkReleaseImmutability and of the
\* iteration; an exception leaving checkReleaseImmutability reaches run()'s catch
\* the settled request left in flight: the next one starts beside it
SettledWithKeepingRequest(resp) ==
    LET got == SettleLookup(inflight[1], resp) IN
    /\ lastResponse' = resp
    /\ warnings' = warnings \o got.warnings
    /\ IF got.threw
       THEN /\ failed' = Append(failed, "Action failed with error: " \o got.error.message)
            /\ pc' = "done"
            /\ UNCHANGED <<cache, cacheWrites, mutable, immutable, actIdx>>
       ELSE /\ Classified(uniqueActions[actIdx], got.result)
            /\ failed' = failed
            /\ pc' = "check"
    /\ inflight' = inflight

\* the call settled with resp
SettledWith(resp) ==
    LET got == SettleLookup(inflight[1], resp) IN
    /\ lastResponse' = resp
    /\ warnings' = warnings \o got.warnings
    /\ IF got.threw
       THEN /\ failed' = Append(failed, "Action failed with error: " \o got.error.message)
            /\ pc' = "done"
            /\ UNCHANGED <<cache, cacheWrites, mutable, immutable, actIdx>>
       ELSE /\ Classified(uniqueActions[actIdx], got.result)
            /\ failed' = failed
            /\ pc' = "check"
    /\ inflight' = <<>>

SettleGetReleaseByTag ==
    /\ pc = "await"
    /\ \E resp \in OctokitResponses : SettledWith(resp)
    /\ UNCHANGED <<inputs, workspace, failOnMutable, workflowFiles, fileIdx, allActions,
                   uniqueActions, firstParty, byWorkflow, calls, outputs, summary>>
    /\ UNCHANGED fnVars

\* the grouping by workflow file and the return of checkAllActions
GroupByWorkflow ==
    /\ pc = "check"
    /\ actIdx > Len(uniqueActions)
    /\ byWorkflow' = BuildByWorkflow(allActions, cache)
    /\ pc' = "outputs"
    /\ UNCHANGED <<inputs, workspace, failOnMutable, workflowFiles, fileIdx, allActions,
                   uniqueActions, actIdx, cache, mutable, immutable, firstParty, inflight,
                   calls, cacheWrites, outputs, failed, warnings, summary>>
    /\ UNCHANGED fnVars
    /\ lastResponse' = NoResponse

\* the five core.setOutput calls
SetOutputs ==
    /\ pc = "outputs"
    /\ outputs' = outputs \o <<Out("workflows-checked", Json(Basenames(workflowFiles))),
                               Out("mutable-actions", Json(mutable)),
                               Out("immutable-actions", Json(immutable)),
                               Out("first-party-actions", Json(firstParty)),
                               Out("all-passed", AllPassed(mutable))>>
    /\ pc' = "summary"
    /\ UNCHANGED <<inputs, workspace, failOnMutable, workflowFiles, fileIdx, allActions,
                   uniqueActions, actIdx, cache, mutable, immutable, firstParty,
                   byWorkflow, inflight, lastResponse, calls, cacheWrites, failed,
                   warnings, summary>>
    /\ UNCHANGED fnVars

MutableWarnings(list) ==
    IF Len(list) = 0 THEN <<>>
    ELSE <<[text |-> "action(s) using mutable releases", count |-> Len(list)]>>
         \o [i \in 1..Len(list) |->
               [text |-> "mutable action", owner |-> list[i].owner, repo |-> list[i].repo,
                ref |-> list[i].ref, detail |-> list[i].message]]

\* the job summary (written, or the catch block's fallback when writing
\* throws), the result log and the pass/fail decision
SummarizeAndDecide ==
    /\ pc = "summary"
    /\ \E written \in BOOLEAN : summary' = IF written THEN "written" ELSE "fallback"
    /\ warnings' = warnings \o MutableWarnings(mutable)
    /\ failed' = IF ShouldFail(failOnMutable, mutable)
                 THEN Append(failed, "Found action(s) using mutable releases")
                 ELSE failed
    /\ pc' = "done"
    /\ UNCHANGED <<inputs, workspace, failOnMutable, workflowFiles, fileIdx, allActions,
                   uniqueActions, actIdx, cache, mutable, immutable, firstParty,
                   byWorkflow, inflight, lastResponse, calls, cacheWrites, outputs>>
    /\ UNCHANGED fnVars

Next ==
    \/ ReadInputs
    \/ GetWorkflowFiles
    \/ ParseWorkflow
    \/ NoActionsFound
    \/ BeginCheckAllActions
    \/ ResolveFullSHA
    \/ CallGetReleaseByTag
    \/ SettleGetReleaseByTag
    \/ GroupByWorkflow
    \/ SetOutputs
    \/ SummarizeAndDecide

Spec == Init /\ [][Next]_vars

\* The workspaces of the runs that are followed to their end: one or two
\* files over four of the steps.
LiveSteps == { st \in StepPool : st.uses \in {uCheckout, uTag, uSubPath, uSha} }

LiveStepLists(n) == UNION {[1..k -> LiveSteps] : k \in 0..n}

LiveWorkspaces ==
    { [dirExists |-> FALSE, files |-> <<>>] }
    \cup { [dirExists |-> TRUE, files |-> <<[name |-> sCiYml, doc |-> DocWith(s)]>>] :
             s \in LiveStepLists(MaxSteps) }
    \cup { [dirExists |-> TRUE,
            files |-> <<[name |-> sCiYml, doc |-> DocWith(s1)],
                        [name |-> sDYaml, doc |-> DocWith(<<st>>)]>>] :
              s1 \in LiveStepLists(MaxSteps - 1), st \in LiveSteps }

LiveInit ==
    /\ Init
    /\ workspace \in LiveWorkspaces
    /\ inputs.env = NoInput

(***************************************************************************)
(* checkReleaseImmutability applied on its own, to any arguments and with  *)
(* any collaborator: octokit is a parameter of the exported function.      *)
(***************************************************************************)
sOwner  == <<"o">>
sRepo   == <<"r">>
sV1     == <<"v","1">>
sMain   == <<"m","a","i","n">>

ResolverRefs ==
    { sV1, sMain, Sha40,
      Rep(<<"a">>, ShaLength),
      Rep(<<"a">>, ShaLength - 1),
      Rep(<<"a">>, ShaLength + 1),
      Rep(<<"a">>, ShaLength - 1) \o <<"g">> }

ResolverArgs ==
    { [owner |-> o, repo |-> sRepo, ref |-> r] : o \in {sOwner, sActions}, r \in ResolverRefs }

\* what a collaborator handed to the function can settle a call with
AnyResponses ==
    OctokitResponses
    \cup { [kind |-> "resolved", data |-> FALSE],
           [kind |-> "rejected", object |-> TRUE, status |-> 404, message |-> "undefined"],
           [kind |-> "rejected", object |-> TRUE, status |-> 500, message |-> "undefined"],
           [kind |-> "rejected", object |-> TRUE, status |-> 0, message |-> "fetch failed"],
           [kind |-> "rejected", object |-> FALSE] }

Returned(value) == [state |-> "returned", value |-> value]
Threw(error) == [state |-> "threw", error |-> error]

ResolverInit ==
    /\ pc = "resolver"
    /\ fnArgs \in ResolverArgs
    /\ fnOut = NotApplied
    /\ inputs = [native |-> NoInput, env |-> NoInput]
    /\ workspace = [dirExists |-> FALSE, files |-> <<>>]
    /\ failOnMutable = FALSE
    /\ workflowFiles = <<>>
    /\ fileIdx = 1
    /\ allActions = <<>>
    /\ uniqueActions = <<>>
    /\ actIdx = 1
    /\ cache = <<>>
    /\ mutable = <<>>
    /\ immutable = <<>>
    /\ firstParty = <<>>
    /\ byWorkflow = <<>>
    /\ inflight = <<>>
    /\ lastResponse = NoResponse
    /\ calls = <<>>
    /\ cacheWrites = <<>>
    /\ outputs = <<>>
    /\ failed = <<>>
    /\ warnings = <<>>
    /\ summary = "none"

\* the early return for a full SHA
ReturnFullSHA ==
    /\ pc = "resolver"
    /\ isFullSHA(fnArgs.ref)
    /\ fnOut' = Returned(ShaResult)
    /\ pc' = "resolved"
    /\ UNCHANGED <<fnArgs, inflight, lastResponse, calls, warnings>>
    /\ UNCHANGED runVars

\* the function up to its await of getReleaseByTag
AwaitGetReleaseByTag ==
    /\ pc = "resolver"
    /\ ~isFullSHA(fnArgs.ref)
    /\ inflight' = <<[owner |-> fnArgs.owner, repo |-> fnArgs.repo, tag |-> fnArgs.ref]>>
    /\ calls' = Append(calls, [uses |-> <<>>, owner |-> fnArgs.owner,
                               repo |-> fnArgs.repo, tag |-> fnArgs.ref])
    /\ pc' = "resolverAwait"
    /\ UNCHANGED <<fnArgs, fnOut, lastResponse, warnings>>
    /\ UNCHANGED runVars

\* the call settles: the function returns or throws
ReturnFromLookup ==
    /\ pc = "resolverAwait"
    /\ \E resp \in AnyResponses :
         LET got == SettleLookup(inflight[1], resp) IN
         /\ lastResponse' = resp
         /\ warnings' = warnings \o got.warnings
         /\ fnOut' = IF got.threw THEN Threw(got.error) ELSE Returned(got.result)
    /\ inflight' = <<>>
    /\ pc' = "resolved"
    /\ UNCHANGED <<fnArgs, calls>>
    /\ UNCHANGED runVars

ResolverNext == ReturnFullSHA \/ AwaitGetReleaseByTag \/ ReturnFromLookup

ResolverSpec == ResolverInit /\ [][ResolverNext]_vars

(***************************************************************************)
(* The pure functions applied on their own.                                *)
(***************************************************************************)
\* every spelling of name in upper and lower case
CaseVariants(name) ==
    { [i \in 1..Len(name) |-> IF up[i] THEN UpperCase[CHOOSE k \in 1..Len(LowerCase) :
                                                          LowerCase[k] = name[i]]
                                        ELSE name[i]] :
        up \in [1..Len(name) -> BOOLEAN] }

OwnerPool ==
    CaseVariants(sGithub) \cup CaseVariants(<<"a","c","t">>) \cup CaseVariants(<<"o","c","t">>)
    \cup { sActions, sOctokit, sOwner, <<>>,
           <<"A","c","t","i","o","n","s">>, <<"O","c","t","o","k","i","t">>,
           <<"a","c","t","i","o","n">>, <<"a","c","t","i","o","n","s","s">>,
           <<"g","i","t","h","u","b","s">>, <<"o","c","t","o","k","i","t","s">>,
           <<" ">> \o sActions, sActions \o <<" ">> }

\* uses strings put together from an owner, a repo, a sub-path and a ref
ParseOwners == { sOwner, sActions, <<"O","-","1">>, <<"a",".","b">> }

ParseRepos == { sRepo, <<"r",".","x">>, <<"R","_","2">> }

ParseSubPaths == { <<>>, <<"/">>, <<"/","p">>, <<"/","p","/","q",".","y","m","l">> }

ParseRefs == { sV1, sMain, Sha40, <<"r","e","l","/","v","1">>, <<"v","1",".","2">>,
               <<"a","@","b">> }

Compose(owner, repo, subPath, ref) == owner \o <<"/">> \o repo \o subPath \o <<"@">> \o ref

\* uses values that are not of that form
OtherUsesValues ==
    { StringValue(u) : u \in
        { <<>>,
          <<".","/","l","o","c","a","l">>,
          <<".","/","o","/","r","@","v","1">>,
          <<"d","o","c","k","e","r",":","/","/","a",":","3">>,
          <<"o","/","r","@","a",":","/","/","b">>,
          <<"i","n","v","a","l","i","d">>,
          <<"o","/","r">>,
          <<"o","/","r","/","p">>,
          <<"o","@","v","1">>,
          <<"@","v","1">>,
          <<"/","r","@","v","1">>,
          <<"/","/","@","v","1">>,
          <<"o","/","@","v","1">>,
          <<"o","/","/","p","@","v","1">>,
          <<"o","/","r","@">>,
          <<"o","/","r","/","p","@">>,
          <<"o","/","r","@","v","1","\n">>,
          <<"a","@","b","/","r","@","v","1">>,
          <<"@","x","/","r","@","v","1">>,
          <<"o","/","r","@","@">> } }
    \cup { [type |-> t] : t \in {"null", "undefined", "number", "object"} }

UsesValues ==
    { StringValue(Compose(o, r, p, f)) :
        o \in ParseOwners, r \in ParseRepos, p \in ParseSubPaths, f \in ParseRefs }
    \cup OtherUsesValues

\* workflow documents of one to three jobs; the job written at position i has
\* a step without uses between two steps whose refs end in the digit i
MaxJobs == 3

JobNames == { sBuild, sDeploy, <<"2">>, <<"1","0">>, <<"0","1">> }

JobSteps(i) ==
    << [uses |-> Compose(sOwner, sRepo, <<>>, <<"v", Digits[i + 1]>>), name |-> "First"],
       [name |-> "Shell"],
       [uses |-> Compose(sOwner, sRepo, <<"/","p">>, <<"v", Digits[i + 1]>>)] >>

JobKeyLists ==
    { ks \in UNION { [1..n -> JobNames] : n \in 1..MaxJobs } :
        \A i, j \in 1..Len(ks) : i # j => ks[i] # ks[j] }

ExtractDocs ==
    { [ok |-> TRUE, jobs |-> [i \in 1..Len(ks) |-> [key |-> ks[i], value |-> JobSteps(i)]]] :
        ks \in JobKeyLists }
    \cup { BadDoc, BrokenDoc, DocWith(<<>>), [ok |-> TRUE, jobs |-> <<>>] }

ExtractArgs == { [path |-> <<WorkflowsDir, sCiYml>>, doc |-> d] : d \in ExtractDocs }

\* refs around the 40-character boundary and around the hexadecimal alphabet
ShaRefPool ==
    ResolverRefs
    \cup { Rep(<<c>>, n) : c \in {"0", "9", "a", "f", "A", "F"}, n \in {39, 40, 41} }
    \cup { Rep(<<"a">>, 39) \o <<c>> : c \in {"g", "G", "z", " ", "-", "\n", "/", "@", "_"} }
    \cup { <<c>> \o Rep(<<"b">>, 39) : c \in {"g", "G", "x", " ", ":"} }
    \cup { Rep(<<"c">>, 20) \o <<c>> \o Rep(<<"D">>, 19) : c \in {"5", "e", "E", "h", "."} }
    \cup { Sha40 \o <<"\n">>, <<"\n">> \o Sha40, <<>>, Rep(<<"1","a","B","f">>, 20),
           SubSeq(Sha40, 1, 39), Sha40 \o <<"0">> }

\* workflow directories, and what workflows and exclude-workflows can be given as
sMYml  == <<"m",".","y","m","l">>
sNotes == <<"n",".","t","x","t">>

JoinComma(a, b) == a \o <<",">> \o b

DirListings ==
    { <<>>, <<sNotes>>, <<sCiYml, sNotes, sDYaml>>, <<sDYaml, sCiYml>>,
      <<sDYaml, <<"y","m","l">>, sCiYml, sMYml>> }

DiscoveryWorkspaces ==
    { [dirExists |-> FALSE, files |-> <<>>] }
    \cup { [dirExists |-> TRUE,
            files |-> [i \in 1..Len(l) |-> [name |-> l[i], doc |-> BadDoc]]] :
              l \in DirListings }

WorkflowsInputs ==
    { <<>>, sCiYml, <<",">>, sNotes, sMYml,
      JoinComma(sDYaml, sCiYml),
      JoinComma(sCiYml, <<" ">> \o sMYml \o <<" ">>),
      JoinComma(sMYml, JoinComma(sCiYml, JoinComma(<<>>, sMYml))),
      JoinComma(sCiYml, sCiYml) }

ExcludeInputs ==
    { <<>>, sCiYml, sMYml, <<"c","i">>,
      JoinComma(<<" ">> \o sDYaml \o <<" ">>, sNotes),
      JoinComma(sCiYml, sDYaml) }

DiscoveryArgs ==
    [workflows : WorkflowsInputs, exclude : ExcludeInputs, ws : DiscoveryWorkspaces]

\* what fail-on-mutable can be given as, natively and in the environment
FlagValues ==
    { <<>>, sTrue, sFalse, <<"1">>, <<"y","e","s">>, <<"0">>, <<"n","o">>, <<"o","n">>,
      <<"T","R","U","E">>, <<"T","r","u","e">>, <<"Y","e","s">>, <<"Y","E","S">>,
      <<"t","r","u","e"," ">>, <<"y">>, <<"1","1">> }

\* core.getInput trims what it returns; the environment fallback does not
FlagConfigs ==
    { [native |-> [NoInput EXCEPT !["fail-on-mutable"] = n],
       env    |-> [NoInput EXCEPT !["fail-on-mutable"] = e]] :
        n \in { v \in FlagValues : Trim(v) = v }, e \in FlagValues }

FnInit ==
    /\ \/ pc = "shouldExcludeAction" /\ fnArgs \in OwnerPool
       \/ pc = "getBooleanInput" /\ fnArgs \in FlagConfigs
       \/ pc = "getWorkflowFiles" /\ fnArgs \in DiscoveryArgs
       \/ pc = "isFullSHA" /\ fnArgs \in ShaRefPool
       \/ pc = "parseActionReference" /\ fnArgs \in UsesValues
       \/ pc = "extractActionsFromWorkflow" /\ fnArgs \in ExtractArgs
    /\ fnOut = NotApplied
    /\ inputs = [native |-> NoInput, env |-> NoInput]
    /\ workspace = [dirExists |-> FALSE, files |-> <<>>]
    /\ failOnMutable = FALSE
    /\ workflowFiles = <<>>
    /\ fileIdx = 1
    /\ allActions = <<>>
    /\ uniqueActions = <<>>
    /\ actIdx = 1
    /\ cache = <<>>
    /\ mutable = <<>>
    /\ immutable = <<>>
    /\ firstParty = <<>>
    /\ byWorkflow = <<>>
    /\ inflight = <<>>
    /\ lastResponse = NoResponse
    /\ calls = <<>>
    /\ cacheWrites = <<>>
    /\ outputs = <<>>
    /\ failed = <<>>
    /\ warnings = <<>>
    /\ summary = "none"

ApplyShouldExcludeAction ==
    /\ pc = "shouldExcludeAction"
    /\ fnOut' = Returned(shouldExcludeAction(fnArgs))
    /\ pc' = "shouldExcludeAction.done"
    /\ UNCHANGED <<fnArgs, inflight, lastResponse, calls, warnings>>
    /\ UNCHANGED runVars

ApplyParseActionReference ==
    /\ pc = "parseActionReference"
    /\ fnOut' = Returned(parseActionReferenceOfValue(fnArgs))
    /\ pc' = "parseActionReference.done"
    /\ UNCHANGED <<fnArgs, inflight, lastResponse, calls, warnings>>
    /\ UNCHANGED runVars

ApplyExtractActionsFromWorkflow ==
    /\ pc = "extractActionsFromWorkflow"
    /\ LET got == extractActionsFromWorkflow(fnArgs.path, fnArgs.doc)
       IN /\ fnOut' = Returned(got.actions)
          /\ warnings' = warnings \o got.warnings
    /\ pc' = "extractActionsFromWorkflow.done"
    /\ UNCHANGED <<fnArgs, inflight, lastResponse, calls>>
    /\ UNCHANGED runVars

ApplyGetBooleanInput ==
    /\ pc = "getBooleanInput"
    /\ fnOut' = Returned(getBooleanInput(fnArgs, "fail-on-mutable"))
    /\ pc' = "getBooleanInput.done"
    /\ UNCHANGED <<fnArgs, inflight, lastResponse, calls, warnings>>
    /\ UNCHANGED runVars

ApplyGetWorkflowFiles ==
    /\ pc = "getWorkflowFiles"
    /\ LET got == getWorkflowFiles(fnArgs.workflows, fnArgs.exclude, fnArgs.ws)
       IN /\ fnOut' = Returned(got.files)
          /\ warnings' = warnings \o got.warnings
    /\ pc' = "getWorkflowFiles.done"
    /\ UNCHANGED <<fnArgs, inflight, lastResponse, calls>>
    /\ UNCHANGED runVars

ApplyIsFullSHA ==
    /\ pc = "isFullSHA"
    /\ fnOut' = Returned(isFullSHA(fnArgs))
    /\ pc' = "isFullSHA.done"
    /\ UNCHANGED <<fnArgs, inflight, lastResponse, calls, warnings>>
    /\ UNCHANGED runVars

FnNext ==
    \/ ApplyShouldExcludeAction
    \/ ApplyIsFullSHA
    \/ ApplyGetBooleanInput
    \/ ApplyGetWorkflowFiles
    \/ ApplyParseActionReference
    \/ ApplyExtractActionsFromWorkflow

FnSpec == FnInit /\ [][FnNext]_vars

(***************************************************************************)
(* checkAllActions(octokit, actions) called twice on one list, with a      *)
(* collaborator that answers by the owner, repo and tag it is asked about. *)
(* fnArgs holds the list and the collaborator's answers, fnOut the reports *)
(* returned so far.                                                        *)
(***************************************************************************)
MaxRefs == 3

sTwo == <<"2">>

StepNames == <<"s1", "s2", "s3", "s4", "s5">>

RefUses == { uCheckout, uGithubSha, uTag, uSubPath, uSha }

RefFiles == { sCiYml, sTwo }

\* the reference the parser yields for uses, found at position i in file
RefAt(uses, file, i) ==
    LET parsed == parseActionReference(uses) IN
    [uses         |-> uses,
     owner        |-> parsed.owner,
     repo         |-> parsed.repo,
     ref          |-> parsed.ref,
     workflowFile |-> file,
     jobName      |-> sBuild,
     stepName     |-> StepNames[i],
     isFirstParty |-> shouldExcludeAction(parsed.owner)]

RefLists ==
    UNION { { [i \in 1..n |-> RefAt(us[i], fs[i], i)] :
                us \in [1..n -> RefUses], fs \in [1..n -> RefFiles] } : n \in 0..MaxRefs }

AnswerKeys == { LookupRequest(RefAt(u, sCiYml, 1)) : u \in {uTag, uSubPath} }

ConstantAnswers ==
    { [k \in AnswerKeys |-> r] :
        r \in { [kind |-> "resolved", data |-> TRUE, immutable |-> "true"],
                [kind |-> "resolved", data |-> TRUE, immutable |-> "false"],
                [kind |-> "rejected", object |-> TRUE, status |-> 500,
                 message |-> "Server Error"] } }

Report == [mutable |-> mutable, immutable |-> immutable, firstParty |-> firstParty,
           byWorkflow |-> byWorkflow]

AggregateInit ==
    /\ pc = "aggregate"
    /\ fnArgs \in [actions : RefLists, answers : ConstantAnswers]
    /\ allActions = fnArgs.actions
    /\ fnOut = Returned(<<>>)
    /\ inputs = [native |-> NoInput, env |-> NoInput]
    /\ workspace = [dirExists |-> FALSE, files |-> <<>>]
    /\ failOnMutable = FALSE
    /\ workflowFiles = <<>>
    /\ fileIdx = 1
    /\ uniqueActions = <<>>
    /\ actIdx = 1
    /\ cache = <<>>
    /\ mutable = <<>>
    /\ immutable = <<>>
    /\ firstParty = <<>>
    /\ byWorkflow = <<>>
    /\ inflight = <<>>
    /\ lastResponse = NoResponse
    /\ calls = <<>>
    /\ cacheWrites = <<>>
    /\ outputs = <<>>
    /\ failed = <<>>
    /\ warnings = <<>>
    /\ summary = "none"

\* the call, up to the first await
CheckAllActionsCalled ==
    /\ pc = "aggregate"
    /\ EnterCheckAllActions
    /\ pc' = "check"
    /\ UNCHANGED <<inputs, workspace, failOnMutable, workflowFiles, fileIdx, allActions,
                   inflight, lastResponse, calls, outputs, failed, warnings, summary>>
    /\ UNCHANGED fnVars

\* the awaited call settles with the collaborator's answer for that request
SettleWithAnswer ==
    /\ pc = "await"
    /\ SettledWith(fnArgs.answers[inflight[1]])
    /\ UNCHANGED <<inputs, workspace, failOnMutable, workflowFiles, fileIdx, allActions,
                   uniqueActions, firstParty, byWorkflow, calls, outputs, summary>>
    /\ UNCHANGED fnVars

\* the return of the call; the first return is followed by the second call
ReturnReport ==
    /\ pc = "outputs"
    /\ fnOut' = Returned(Append(fnOut.value, Report))
    /\ pc' = IF fnOut.value = <<>> THEN "aggregate" ELSE "returned"
    /\ UNCHANGED <<fnArgs, inflight, lastResponse, calls, warnings>>
    /\ UNCHANGED runVars

AggregateNext ==
    \/ CheckAllActionsCalled
    \/ ResolveFullSHA
    \/ CallGetReleaseByTag
    \/ SettleWithAnswer
    \/ GroupByWorkflow
    \/ ReturnReport

AggregateSpec == AggregateInit /\ [][AggregateNext]_vars

(***************************************************************************)
(* run() with collaborators that fail: a .github/workflows that exists but *)
(* is not a directory (fs.readdirSync throws), a client whose              *)
(* getReleaseByTag settles with anything, and a core.setOutput that throws *)
(* (the file named by GITHUB_OUTPUT is missing).  lastResponse keeps the   *)
(* error a collaborator threw.                                             *)
(***************************************************************************)
ErrNotDirectory == [object |-> TRUE, message |-> "ENOTDIR: not a directory, scandir"]

ErrMissingOutputFile == [object |-> TRUE, message |-> "Missing file at path"]

Thrown(error) == [kind |-> "thrown", message |-> error.message]

\* the catch clause passing the error on instead of reporting it
CatchRunErrorRethrowing(error) ==
    /\ failed' = failed
    /\ pc' = "escaped"

\* the catch clause of run(): reading error.message of a thrown null or
\* undefined throws in turn, and that exception leaves run()
CatchRunError(error) ==
    IF error.object
    THEN /\ failed' = Append(failed, "Action failed with error: " \o error.message)
         /\ pc' = "done"
    ELSE /\ failed' = failed
         /\ pc' = "escaped"

NotADirectory(ws) == "notDirectory" \in DOMAIN ws

FaultWorkspaces ==
    { w \in Workspaces : Len(w.files) <= 1 }
    \cup { [dirExists |-> TRUE, files |-> <<>>, notDirectory |-> TRUE] }

FaultInit ==
    /\ inputs \in InputConfigs
    /\ workspace \in FaultWorkspaces
    /\ pc = "start"
    /\ failOnMutable = FALSE
    /\ workflowFiles = <<>>
    /\ fileIdx = 1
    /\ allActions = <<>>
    /\ uniqueActions = <<>>
    /\ actIdx = 1
    /\ cache = <<>>
    /\ mutable = <<>>
    /\ immutable = <<>>
    /\ firstParty = <<>>
    /\ byWorkflow = <<>>
    /\ inflight = <<>>
    /\ lastResponse = NoResponse
    /\ calls = <<>>
    /\ cacheWrites = <<>>
    /\ outputs = <<>>
    /\ failed = <<>>
    /\ warnings = <<>>
    /\ summary = "none"
    /\ fnArgs = <<>>
    /\ fnOut = NotApplied

\* getWorkflowFiles when listing the directory throws
ReaddirThrows ==
    /\ pc = "discover"
    /\ NotADirectory(workspace)
    /\ getInput(inputs, "workflows") = <<>>
    /\ lastResponse' = Thrown(ErrNotDirectory)
    /\ CatchRunError(ErrNotDirectory)
    /\ UNCHANGED <<inputs, workspace, failOnMutable, workflowFiles, fileIdx, allActions,
                   uniqueActions, actIdx, cache, mutable, immutable, firstParty,
                   byWorkflow, inflight, calls, cacheWrites, outputs, warnings, summary>>
    /\ UNCHANGED fnVars

\* getWorkflowFiles when it does not
DiscoverReadable ==
    /\ ~(NotADirectory(workspace) /\ getInput(inputs, "workflows") = <<>>)
    /\ GetWorkflowFiles

\* the awaited call settles with whatever the client settles with
SettleAnyResponse ==
    /\ pc = "await"
    /\ \E resp \in AnyResponses : SettledWith(resp)
    /\ UNCHANGED <<inputs, workspace, failOnMutable, workflowFiles, fileIdx, allActions,
                   uniqueActions, firstParty, byWorkflow, calls, outputs, summary>>
    /\ UNCHANGED fnVars

\* the first or the last of the five core.setOutput calls throws, the ones
\* before it done
SetOutputThrows ==
    /\ pc = "outputs"
    /\ \E done \in {0, 4} :
          outputs' = outputs \o
              SubSeq(<<Out("workflows-checked", Json(Basenames(workflowFiles))),
                       Out("mutable-actions", Json(mutable)),
                       Out("immutable-actions", Json(immutable)),
                       Out("first-party-actions", Json(firstParty))>>, 1, done)
    /\ lastResponse' = Thrown(ErrMissingOutputFile)
    /\ CatchRunError(ErrMissingOutputFile)
    /\ UNCHANGED <<inputs, workspace, failOnMutable, workflowFiles, fileIdx, allActions,
                   uniqueActions, actIdx, cache, mutable, immutable, firstParty,
                   byWorkflow, inflight, calls, cacheWrites, warnings, summary>>
    /\ UNCHANGED fnVars

FaultNext ==
    \/ ReadInputs
    \/ ReaddirThrows
    \/ DiscoverReadable
    \/ ParseWorkflow
    \/ NoActionsFound
    \/ BeginCheckAllActions
    \/ ResolveFullSHA
    \/ CallGetReleaseByTag
    \/ SettleAnyResponse
    \/ GroupByWorkflow
    \/ SetOutputs
    \/ SetOutputThrows
    \/ SummarizeAndDecide

FaultSpec == FaultInit /\ [][FaultNext]_vars

\* run() when every step it can take is taken in the end: the thread of
\* run() goes on, and every awaited getReleaseByTag call settles, with a
\* value or with whatever the client throws.
LiveNext ==
    \/ ReadInputs
    \/ GetWorkflowFiles
    \/ ParseWorkflow
    \/ NoActionsFound
    \/ BeginCheckAllActions
    \/ ResolveFullSHA
    \/ CallGetReleaseByTag
    \/ SettleAnyResponse
    \/ GroupByWorkflow
    \/ SetOutputs
    \/ SummarizeAndDecide

LiveSpec == LiveInit /\ [][LiveNext]_vars /\ WF_vars(LiveNext)

(***************************************************************************)
(* The vocabulary of the properties.                                       *)
(***************************************************************************)
ExemptOwners == {sActions, sGithub, sOctokit}

Hex40(ref) == Len(ref) = 40 /\ \A i \in 1..Len(ref) : ref[i] \in HexChars

\* checkAllActions has returned
Aggregated ==
    pc \in {"outputs", "summary"} \/ (pc = "done" /\ OutputSet(outputs, "first-party-actions"))

FlatLists == mutable \o immutable \o firstParty

ViewLists(view) == view.mutable \o view.immutable \o view.firstParty

CountUses(list, u) == Cardinality({i \in 1..Len(list) : list[i].uses = u})

FileUses(file, u) ==
    \E i \in 1..Len(allActions) :
        allActions[i].workflowFile = file /\ allActions[i].uses = u

\* the distinct uses strings of a list, in the order of their first occurrence
DistinctUses(list) ==
    LET firsts == SelectSeqIdx(list, LAMBDA i : \A j \in 1..(i - 1) : list[j].uses # list[i].uses)
    IN [i \in 1..Len(firsts) |-> firsts[i].uses]

UsesOf(list) == [i \in 1..Len(list) |-> list[i].uses]

(***************************************************************************)
(* C1.  A uses string of a non-exempt owner that occurs N >= 1 times over  *)
(* M files is looked up at most once, has exactly one entry in the flat    *)
(* lists, and exactly one entry in byWorkflow for each of the M files that *)
(* reference it (and none for the other files).                            *)
(***************************************************************************)
C1_Deduplication ==
    \A i \in 1..Len(allActions) :
        LET a == allActions[i] IN
        a.owner \notin ExemptOwners =>
            /\ CountUses(calls, a.uses) <= 1
            /\ Aggregated =>
                 /\ CountUses(FlatLists, a.uses) = 1
                 /\ MapHas(byWorkflow, a.workflowFile)
                 /\ \A k \in 1..Len(byWorkflow) :
                        CountUses(ViewLists(byWorkflow[k].value), a.uses)
                            = IF FileUses(byWorkflow[k].key, a.uses) THEN 1 ELSE 0

C1_Witness ==
    /\ Aggregated
    /\ \E i, j \in 1..Len(allActions) :
         /\ i < j
         /\ allActions[i].uses = allActions[j].uses
         /\ allActions[i].workflowFile # allActions[j].workflowFile
         /\ allActions[i].owner \notin ExemptOwners
         /\ CountUses(calls, allActions[i].uses) = 1
         /\ \E k \in 1..Len(allActions) :
               k # i /\ allActions[k].uses = allActions[i].uses
                     /\ allActions[k].workflowFile = allActions[i].workflowFile

(***************************************************************************)
(* C2.  A reference whose ref is 40 hexadecimal characters (any case) is   *)
(* never the subject of a getReleaseByTag call and never in a mutable      *)
(* list; its entry has immutable = true and releaseFound = false, and for  *)
(* a non-exempt owner the message "Immutable (full SHA reference)".        *)
(***************************************************************************)
C2_ShaEntry(e) ==
    Hex40(e.ref) =>
        /\ e.immutable
        /\ ~e.releaseFound
        /\ (e.owner \notin ExemptOwners => e.message = "Immutable (full SHA reference)")

C2_FullShaNeedsNoLookup ==
    /\ \A i \in 1..Len(calls) : ~Hex40(calls[i].tag)
    /\ \A i \in 1..Len(inflight) : ~Hex40(inflight[i].tag)
    /\ \A i \in 1..Len(mutable) : ~Hex40(mutable[i].ref)
    /\ \A i \in 1..Len(immutable) : C2_ShaEntry(immutable[i])
    /\ \A i \in 1..Len(firstParty) : C2_ShaEntry(firstParty[i])
    /\ \A k \in 1..Len(byWorkflow) :
         LET view == byWorkflow[k].value IN
         /\ \A i \in 1..Len(view.mutable) : ~Hex40(view.mutable[i].ref)
         /\ \A i \in 1..Len(view.immutable) : C2_ShaEntry(view.immutable[i])
         /\ \A i \in 1..Len(view.firstParty) : C2_ShaEntry(view.firstParty[i])
    /\ Aggregated =>
         \A i \in 1..Len(allActions) :
            Hex40(allActions[i].ref) =>
                /\ CountUses(immutable \o firstParty, allActions[i].uses) = 1
                /\ \E k \in 1..Len(byWorkflow) :
                      /\ byWorkflow[k].key = allActions[i].workflowFile
                      /\ CountUses(byWorkflow[k].value.immutable
                                   \o byWorkflow[k].value.firstParty, allActions[i].uses) = 1

C2_Witness ==
    /\ pc = "done"
    /\ Len(calls) > 0
    /\ \E i \in 1..Len(immutable) :
         /\ Hex40(immutable[i].ref)
         /\ \E c \in HexChars \ {"0","1","2","3","4","5","6","7","8","9",
                                 "a","b","c","d","e","f"} : c \in Range(immutable[i].ref)
         /\ immutable[i].message = "Immutable (full SHA reference)"
    /\ \E i \in 1..Len(firstParty) : Hex40(firstParty[i].ref)

(***************************************************************************)
(* C3.  A reference of an exempt owner is reported in the firstParty lists *)
(* only (flat and per file), with immutable = true, releaseFound = false   *)
(* and the message "First-party action" whatever its ref, and is never     *)
(* looked up; a run over exempt-owner references only ends with            *)
(* all-passed = true and is not marked failed.                             *)
(***************************************************************************)
C3_FirstPartyEntry(e) ==
    /\ e.owner \in ExemptOwners
    /\ e.immutable
    /\ ~e.releaseFound
    /\ e.message = "First-party action"

C4_ExemptOwnerCheck ==
    pc = "shouldExcludeAction.done" => fnOut.value = (fnArgs \in ExemptOwners)

C4_Witness ==
    /\ pc = "shouldExcludeAction.done"
    /\ fnArgs = <<"A","c","t","i","o","n","s">>
    /\ fnOut.value = FALSE

(***************************************************************************)
(* C5.  For a ref that is not a full SHA the result of                     *)
(* checkReleaseImmutability is fixed by the answer of getReleaseByTag:     *)
(* a release whose immutable flag is exactly true gives                    *)
(* {true, true, "Immutable release"}; a release whose flag is absent,      *)
(* false or any other value gives {false, true, "Mutable release"}; a      *)
(* rejection with status 404 gives {false, false, "No release found for    *)
(* this reference"} and no warning.                                        *)
(***************************************************************************)
Triple(isImmutable, found, text) ==
    [immutable |-> isImmutable, releaseFound |-> found, message |-> text]

C5_LookupOutcome ==
    (pc = "resolved" /\ ~Hex40(fnArgs.ref)) =>
        /\ lastResponse.kind \in {"resolved", "rejected"}
        /\ Len(calls) = 1
        /\ calls[1].owner = fnArgs.owner
        /\ calls[1].repo = fnArgs.repo
        /\ calls[1].tag = fnArgs.ref
        /\ IF lastResponse.kind = "resolved"
           THEN lastResponse.data =>
                  /\ warnings = <<>>
                  /\ fnOut = IF lastResponse.immutable = "true"
                             THEN Returned(Triple(TRUE, TRUE, "Immutable release"))
                             ELSE Returned(Triple(FALSE, TRUE, "Mutable release"))
           ELSE (lastResponse.object /\ lastResponse.status = 404) =>
                  /\ warnings = <<>>
                  /\ fnOut = Returned(Triple(FALSE, FALSE, "No release found for this reference"))

C5_Witness ==
    /\ pc = "resolved"
    /\ lastResponse.kind = "resolved"
    /\ lastResponse.data
    /\ lastResponse.immutable = "other"
    /\ fnOut = Returned(Triple(FALSE, TRUE, "Mutable release"))

(***************************************************************************)
(* C6.  When the lookup fails with an error other than not-found (a        *)
(* rejection carrying another status or none, or a response without a      *)
(* release payload), checkReleaseImmutability emits exactly one warning    *)
(* that names the reference and carries the error's message, and returns   *)
(* {false, false, "API error: " + message}.                                *)
(***************************************************************************)
C6_IsFault(resp) ==
    IF resp.kind = "resolved" THEN ~resp.data
    ELSE resp.kind = "rejected" /\ resp.object /\ resp.status # 404

C6_Detail(resp) ==
    IF resp.kind = "resolved"
    THEN "Cannot read properties of undefined (reading 'immutable')"
    ELSE resp.message

C7_NeverThrows ==
    pc = "resolved" =>
        /\ fnOut.state = "returned"
        /\ fnOut.value.immutable \in BOOLEAN
        /\ fnOut.value.releaseFound \in BOOLEAN
        /\ fnOut.value.message # ""

\* the call that does throw: getReleaseByTag rejected with null or undefined
C7_ThrewOnValuelessRejection ==
    /\ pc = "resolved"
    /\ lastResponse.kind = "rejected"
    /\ ~lastResponse.object
    /\ fnOut = Threw(TypeErrorNoError)

C9_AllPassedIsNoMutable ==
    OutputSet(outputs, "all-passed") =>
        /\ OutputValue(outputs, "all-passed") = (Len(mutable) = 0)
        /\ OutputSet(outputs, "mutable-actions")
        /\ OutputValue(outputs, "all-passed")
              = (Len(OutputValue(outputs, "mutable-actions").json) = 0)

C9_Witness ==
    /\ pc = "done"
    /\ ~failOnMutable
    /\ Len(mutable) > 0
    /\ OutputSet(outputs, "all-passed")
    /\ OutputValue(outputs, "all-passed") = FALSE
    /\ failed = <<>>

(***************************************************************************)
(* C10.  A lookup fault for one reference is contained.  The step that     *)
(* settles a lookup appends exactly one entry for that reference, to the   *)
(* mutable list when the lookup failed, with a classification that depends *)
(* on the answer to that lookup alone; it leaves every earlier entry, the  *)
(* list of references still to look up and the run's failure state as they *)
(* were, and the loop goes on.  At the end every non-exempt reference has  *)
(* been classified and every tag reference looked up, in order; a faulted  *)
(* reference makes all-passed false and, under fail-on-mutable, fails the  *)
(* run.                                                                    *)
(***************************************************************************)
C10_Answer(resp) ==
    IF resp.kind = "resolved"
    THEN IF resp.immutable = "true"
         THEN Triple(TRUE, TRUE, "Immutable release")
         ELSE Triple(FALSE, TRUE, "Mutable release")
    ELSE IF resp.status = 404
         THEN Triple(FALSE, FALSE, "No release found for this reference")
         ELSE Triple(FALSE, FALSE, "API error: " \o resp.message)

C10_Entry(action, answer) ==
    [uses |-> action.uses, owner |-> action.owner, repo |-> action.repo,
     ref |-> action.ref, isFirstParty |-> FALSE, immutable |-> answer.immutable,
     releaseFound |-> answer.releaseFound, message |-> answer.message]

C10_IsFault(resp) == resp.kind = "rejected" /\ resp.status # 404

C10_FaultMessages == {"API error: " \o r.message : r \in {x \in OctokitResponses : C10_IsFault(x)}}

C10_ThirdParty(list) ==
    SelectSeqIdx(list, LAMBDA i : list[i].owner \notin ExemptOwners)

C10_Tagged(list) ==
    SelectSeqIdx(list, LAMBDA i : list[i].owner \notin ExemptOwners /\ ~Hex40(list[i].ref))

C10_SameElements(s, t) ==
    /\ Len(s) = Len(t)
    /\ \A u \in Range(s) : CountUses(s, u.uses) = 1 /\ CountUses(t, u.uses) = 1

TokenMessage == "github-token is required (defaults to github.token)"

C11_TokenAbsent ==
    inputs.native["github-token"] = <<>> /\ inputs.env["github-token"] = <<>>

C11_NoTokenStopsRun ==
    pc # "start" =>
        IF C11_TokenAbsent
        THEN /\ pc = "done"
             /\ failed = <<TokenMessage>>
             /\ workflowFiles = <<>>
             /\ fileIdx = 1
             /\ allActions = <<>>
             /\ calls = <<>>
             /\ inflight = <<>>
             /\ outputs = <<>>
             /\ warnings = <<>>
             /\ summary = "none"
        ELSE \A i \in 1..Len(failed) : failed[i] # TokenMessage

C11_Witness ==
    /\ pc = "done"
    /\ C11_TokenAbsent
    /\ failed = <<TokenMessage>>
    /\ workspace.dirExists
    /\ Len(workspace.files) = 2

(***************************************************************************)
(* C12.  When discovery returns no files, or the discovered files yield no *)
(* references, run ends in a success state whatever fail-on-mutable is: it *)
(* is not marked failed, all-passed is true, mutable-actions and           *)
(* immutable-actions are empty arrays, and no lookup is issued (the        *)
(* checking phase is never entered).                                       *)
(***************************************************************************)
C12_NothingToCheck ==
    /\ ~C11_TokenAbsent
    /\ allActions = <<>>
    /\ pc \notin {"start", "discover", "parse"}

C12_NothingToCheckIsSuccess ==
    /\ (allActions = <<>>) =>
          /\ pc \notin {"check", "await", "outputs", "summary"}
          /\ calls = <<>>
          /\ inflight = <<>>
    /\ C12_NothingToCheck =>
          /\ pc = "done"
          /\ failed = <<>>
          /\ OutputSet(outputs, "all-passed")
          /\ OutputValue(outputs, "all-passed") = TRUE
          /\ OutputSet(outputs, "mutable-actions")
          /\ OutputValue(outputs, "mutable-actions") = [json |-> <<>>]
          /\ OutputSet(outputs, "immutable-actions")
          /\ OutputValue(outputs, "immutable-actions") = [json |-> <<>>]
          /\ mutable = <<>>
          /\ immutable = <<>>

\* files were discovered and parsed, none held a reference, failure was asked for
C12_Witness ==
    /\ C12_NothingToCheck
    /\ failOnMutable
    /\ Len(workflowFiles) = 2
    /\ fileIdx = 3
    /\ failed = <<>>
    /\ OutputValue(outputs, "all-passed") = TRUE

(***************************************************************************)
(* C13.  For every uses string owner/repo@ref or owner/repo/subpath@ref,   *)
(* parseActionReference returns exactly {owner, repo, ref}: the sub-path   *)
(* is discarded, whatever its depth, and the ref is kept whole.            *)
(***************************************************************************)
C13_ParsesOwnerRepoRef ==
    pc = "parseActionReference.done" =>
        \A o \in ParseOwners, r \in ParseRepos, p \in ParseSubPaths, f \in ParseRefs :
            fnArgs = [type |-> "string", chars |-> Compose(o, r, p, f)]
                => fnOut = Returned([owner |-> o, repo |-> r, ref |-> f])

C13_Witness ==
    /\ pc = "parseActionReference.done"
    /\ fnArgs = [type |-> "string",
                 chars |-> <<"o","/","r","/","p","/","q",".","y","m","l","@",
                             "r","e","l","/","v","1">>]
    /\ fnOut = Returned([owner |-> <<"o">>, repo |-> <<"r">>,
                         ref |-> <<"r","e","l","/","v","1">>])

(***************************************************************************)
(* C14.  parseActionReference returns no reference for every uses string   *)
(* that starts with "./", contains "://", has no "@", or has an empty      *)
(* owner, repo or ref segment, and for empty or non-string input; every    *)
(* reference it returns has a non-empty owner, repo and ref.               *)
(***************************************************************************)
C14_FirstIndex(s, c) ==
    IF \E i \in 1..Len(s) : s[i] = c
    THEN CHOOSE i \in 1..Len(s) : s[i] = c /\ \A j \in 1..(i - 1) : s[j] # c
    ELSE 0

C14_MustReject(s) ==
    LET slash == C14_FirstIndex(s, "/")
        at    == C14_FirstIndex(s, "@")
    IN \/ s = <<>>
       \/ (Len(s) >= 2 /\ s[1] = "." /\ s[2] = "/")
       \/ \E i \in 1..(Len(s) - 2) : s[i] = ":" /\ s[i + 1] = "/" /\ s[i + 2] = "/"
       \/ at = 0
       \/ slash = 1
       \/ slash = 0
       \/ slash = Len(s)
       \/ s[slash + 1] \in {"/", "@"}
       \/ at = Len(s)

C14_RejectsMalformed ==
    pc = "parseActionReference.done" =>
        /\ fnOut.state = "returned"
        /\ fnArgs.type # "string" => fnOut.value = [none |-> TRUE]
        /\ (fnArgs.type = "string" /\ C14_MustReject(fnArgs.chars))
               => fnOut.value = [none |-> TRUE]
        /\ fnOut.value # [none |-> TRUE] =>
               /\ DOMAIN fnOut.value = {"owner", "repo", "ref"}
               /\ fnOut.value.owner # <<>>
               /\ fnOut.value.repo # <<>>
               /\ fnOut.value.ref # <<>>

C14_Witness ==
    /\ pc = "parseActionReference.done"
    /\ fnArgs = [type |-> "string", chars |-> <<".","/","o","/","r","@","v","1">>]
    /\ fnOut = Returned([none |-> TRUE])

(***************************************************************************)
(* C15.  extractActionsFromWorkflow returns the references of one file in  *)
(* document order: jobs in the order written, steps in list order within   *)
(* each job, whatever the job names are.                                   *)
(***************************************************************************)
C15_UsesOfSteps(steps) ==
    LET used == SelectSeqIdx(steps, LAMBDA i : "uses" \in DOMAIN steps[i])
    IN [i \in 1..Len(used) |-> used[i].uses]

C15_InDocumentOrder(jobs) ==
    IF jobs = <<>> THEN <<>>
    ELSE LET F[n \in 1..Len(jobs)] ==
                 IF n = 1 THEN C15_UsesOfSteps(jobs[1].value)
                 ELSE F[n - 1] \o C15_UsesOfSteps(jobs[n].value)
         IN F[Len(jobs)]

C15_Extracted ==
    /\ pc = "extractActionsFromWorkflow.done"
    /\ fnArgs.doc.ok
    /\ \A j \in 1..Len(fnArgs.doc.jobs) : "notIterable" \notin DOMAIN fnArgs.doc.jobs[j]

C15_DocumentOrder ==
    C15_Extracted => UsesOf(fnOut.value) = C15_InDocumentOrder(fnArgs.doc.jobs)

\* a job named 2 written after a job named build comes out first
C15_NumericJobNameMovesAhead ==
    /\ C15_Extracted
    /\ Len(fnArgs.doc.jobs) = 2
    /\ fnArgs.doc.jobs[1].key = <<"b","u","i","l","d">>
    /\ fnArgs.doc.jobs[2].key = <<"2">>
    /\ fnOut.value[1].jobName = <<"2">>
    /\ UsesOf(fnOut.value) # C15_InDocumentOrder(fnArgs.doc.jobs)

\* document order is kept when no job name is a canonical array index
C15_DocumentOrderOfNamedJobs ==
    (/\ C15_Extracted
     /\ \A j \in 1..Len(fnArgs.doc.jobs) :
           \E i \in 1..Len(fnArgs.doc.jobs[j].key) :
               fnArgs.doc.jobs[j].key[i] \notin {"0","1","2","3","4","5","6","7","8","9"})
    => UsesOf(fnOut.value) = C15_InDocumentOrder(fnArgs.doc.jobs)

(***************************************************************************)
(* C16.  When a workflow file cannot be read or parsed, or its structure   *)
(* makes the extraction fail, extractActionsFromWorkflow does not throw:   *)
(* it emits exactly one warning for that file and contributes no           *)
(* reference, and the run goes on to the remaining files.                  *)
(***************************************************************************)
C16_DocAt(path) ==
    workspace.files[CHOOSE i \in 1..Len(workspace.files) :
                        workspace.files[i].name = path[2]].doc

C16_Unusable(doc) ==
    \/ ~doc.ok
    \/ \E j \in 1..Len(doc.jobs) : "notIterable" \in DOMAIN doc.jobs[j]

C16_HasSteps(doc) ==
    \E j \in 1..Len(doc.jobs) : doc.jobs[j].value # <<>>

C16_ParseWarnings(list) ==
    SelectSeqIdx(list, LAMBDA i : list[i].text = "Failed to parse workflow")

C16_ParseFailureContained ==
    [][ /\ (pc = "parse" /\ fileIdx <= Len(workflowFiles)) =>
              LET path == workflowFiles[fileIdx] IN
              /\ pc' = "parse"
              /\ fileIdx' = fileIdx + 1
              /\ failed' = failed
              /\ workflowFiles' = workflowFiles
              /\ IF C16_Unusable(C16_DocAt(path))
                 THEN /\ allActions' = allActions
                      /\ warnings' = Append(warnings,
                                            [text |-> "Failed to parse workflow", path |-> path])
                 ELSE /\ warnings' = warnings
                      /\ Len(allActions') >= Len(allActions)
                      /\ SubSeq(allActions', 1, Len(allActions)) = allActions
        /\ (pc = "parse" /\ fileIdx > Len(workflowFiles)) =>
              /\ \A i \in 1..Len(workflowFiles) :
                    LET doc == C16_DocAt(workflowFiles[i]) IN
                    /\ C16_Unusable(doc) =>
                          /\ \A k \in 1..Len(allActions) :
                                allActions[k].workflowFile # workflowFiles[i][2]
                          /\ Cardinality({k \in 1..Len(warnings) :
                                            warnings[k] = [text |-> "Failed to parse workflow",
                                                           path |-> workflowFiles[i]]}) = 1
                    /\ (~C16_Unusable(doc) /\ C16_HasSteps(doc)) =>
                          \E k \in 1..Len(allActions) :
                                allActions[k].workflowFile = workflowFiles[i][2]
              /\ Len(C16_ParseWarnings(warnings))
                    = Cardinality({i \in 1..Len(workflowFiles) :
                                      C16_Unusable(C16_DocAt(workflowFiles[i]))})
      ]_vars

\* the first file failed inside the loops, the second was parsed, the run ended
C16_Witness ==
    /\ pc = "done"
    /\ Len(workflowFiles) = 2
    /\ C16_DocAt(workflowFiles[1]).ok
    /\ C16_Unusable(C16_DocAt(workflowFiles[1]))
    /\ Len(allActions) = 1
    /\ allActions[1].workflowFile = workflowFiles[2][2]
    /\ Len(C16_ParseWarnings(warnings)) = 1
    /\ OutputSet(outputs, "all-passed")

(***************************************************************************)
(* C17.  isFullSHA(ref) is true exactly when ref has exactly 40 characters *)
(* and each of them is one of 0-9, a-f, A-F; it is false for 39 or 41      *)
(* hexadecimal characters and for any string holding another character.    *)
(***************************************************************************)
C17_HexDigits ==
    {"0","1","2","3","4","5","6","7","8","9"}
    \cup {"a","b","c","d","e","f"} \cup {"A","B","C","D","E","F"}

C17_FortyHexExactly ==
    pc = "isFullSHA.done" =>
        /\ fnOut.state = "returned"
        /\ fnOut.value = (Len(fnArgs) = 40 /\ \A i \in 1..Len(fnArgs) : fnArgs[i] \in C17_HexDigits)
        /\ Len(fnArgs) \in {39, 41} => fnOut.value = FALSE
        /\ (\E i \in 1..Len(fnArgs) : fnArgs[i] \notin C17_HexDigits) => fnOut.value = FALSE

\* forty-one characters whose first forty are hexadecimal
C17_Witness ==
    /\ pc = "isFullSHA.done"
    /\ Len(fnArgs) = 41
    /\ \A i \in 1..40 : fnArgs[i] \in C17_HexDigits
    /\ \E i \in 1..40 : fnArgs[i] \in {"A","B","C","D","E","F"}
    /\ fnOut.value = FALSE

(***************************************************************************)
(* C18.  The flat lists of checkAllActions keep first-occurrence order:    *)
(* each unique non-exempt reference is appended to immutable when its      *)
(* outcome has immutable = true and to mutable otherwise, and within each  *)
(* of mutable, immutable and firstParty the entries are in the order in    *)
(* which their uses string first occurs in the input.                      *)
(***************************************************************************)
C18_FirstPos(u) ==
    CHOOSE i \in 1..Len(allActions) :
        allActions[i].uses = u /\ \A j \in 1..(i - 1) : allActions[j].uses # u

C18_InFirstOccurrenceOrder(list) ==
    /\ \A i \in 1..Len(list) : \E k \in 1..Len(allActions) : allActions[k].uses = list[i].uses
    /\ \A i, j \in 1..Len(list) :
          i < j => C18_FirstPos(list[i].uses) < C18_FirstPos(list[j].uses)

\* the flag a lookup for the reference yields under the collaborator's answers
C18_OutcomeImmutable(entry) ==
    IF Hex40(entry.ref) THEN TRUE
    ELSE LET answer == fnArgs.answers[[owner |-> entry.owner, repo |-> entry.repo,
                                       tag |-> entry.ref]]
         IN answer.kind = "resolved" /\ answer.immutable = "true"

C18_FlatListsInOrder ==
    /\ C18_InFirstOccurrenceOrder(mutable)
    /\ C18_InFirstOccurrenceOrder(immutable)
    /\ C18_InFirstOccurrenceOrder(firstParty)
    /\ \A i \in 1..Len(mutable) :
          mutable[i].owner \notin ExemptOwners /\ ~mutable[i].immutable
              /\ ~C18_OutcomeImmutable(mutable[i])
    /\ \A i \in 1..Len(immutable) :
          immutable[i].owner \notin ExemptOwners /\ immutable[i].immutable
              /\ C18_OutcomeImmutable(immutable[i])
    /\ \A i \in 1..Len(firstParty) : firstParty[i].owner \in ExemptOwners
    /\ pc = "outputs" =>
          /\ UsesOf(firstParty)
                = DistinctUses(SelectSeqIdx(allActions,
                                 LAMBDA i : allActions[i].owner \in ExemptOwners))
          /\ UsesOf(mutable)
                = DistinctUses(SelectSeqIdx(allActions,
                                 LAMBDA i : /\ allActions[i].owner \notin ExemptOwners
                                            /\ ~C18_OutcomeImmutable(allActions[i])))
          /\ UsesOf(immutable)
                = DistinctUses(SelectSeqIdx(allActions,
                                 LAMBDA i : /\ allActions[i].owner \notin ExemptOwners
                                            /\ C18_OutcomeImmutable(allActions[i])))

\* the input is A, B, A with both mutable
C18_Witness ==
    /\ pc = "outputs"
    /\ Len(allActions) = 3
    /\ allActions[1].uses = allActions[3].uses
    /\ allActions[1].uses # allActions[2].uses
    /\ UsesOf(mutable) = <<allActions[1].uses, allActions[2].uses>>

(***************************************************************************)
(* C19.  The per-file view is built from the original input without any    *)
(* further lookup: the files appear in first-seen order, and for each file *)
(* its mutable, immutable and firstParty lists hold each distinct uses     *)
(* string of that file exactly once, in first-occurrence order within the  *)
(* file, classified by the outcome cached during the global pass.          *)
(***************************************************************************)
C19_FilesFirstSeen ==
    LET firsts == SelectSeqIdx(allActions,
                      LAMBDA i : \A j \in 1..(i - 1) :
                                    allActions[j].workflowFile # allActions[i].workflowFile)
    IN [i \in 1..Len(firsts) |-> firsts[i].workflowFile]

C19_OfFile(file) ==
    SelectSeqIdx(allActions, LAMBDA i : allActions[i].workflowFile = file)

C19_Category(list, cat) ==
    SelectSeqIdx(list,
        LAMBDA i : LET flat == CHOOSE e \in Range(FlatLists) : e.uses = list[i].uses
                   IN cat = (IF flat.isFirstParty THEN "firstParty"
                             ELSE IF flat.immutable THEN "immutable" ELSE "mutable"))

C19_SameOutcome(entry) ==
    LET flat == CHOOSE e \in Range(FlatLists) : e.uses = entry.uses IN
    /\ entry.immutable = flat.immutable
    /\ entry.releaseFound = flat.releaseFound
    /\ entry.message = flat.message
    /\ entry.isFirstParty = flat.isFirstParty

C19_ViewOfFile(file, view) ==
    /\ UsesOf(view.mutable) = DistinctUses(C19_Category(C19_OfFile(file), "mutable"))
    /\ UsesOf(view.immutable) = DistinctUses(C19_Category(C19_OfFile(file), "immutable"))
    /\ UsesOf(view.firstParty) = DistinctUses(C19_Category(C19_OfFile(file), "firstParty"))
    /\ \A i \in 1..Len(ViewLists(view)) :
          /\ ViewLists(view)[i].workflowFile = file
          /\ C19_SameOutcome(ViewLists(view)[i])

\* the lookups of the calls made so far: one per distinct tag reference and call
C19_NoFurtherLookup ==
    Len(calls) = (Len(fnOut.value) + 1) * Len(DistinctUses(C10_Tagged(allActions)))

C19_PerFileLists ==
    pc = "outputs" =>
        /\ {byWorkflow[k].key : k \in 1..Len(byWorkflow)} = Range(C19_FilesFirstSeen)
        /\ Len(byWorkflow) = Len(C19_FilesFirstSeen)
        /\ \A k \in 1..Len(byWorkflow) : C19_ViewOfFile(byWorkflow[k].key, byWorkflow[k].value)
        /\ C19_NoFurtherLookup

C19_PerFileView ==
    pc = "outputs" =>
        /\ [k \in 1..Len(byWorkflow) |-> byWorkflow[k].key] = C19_FilesFirstSeen
        /\ \A k \in 1..Len(byWorkflow) : C19_ViewOfFile(byWorkflow[k].key, byWorkflow[k].value)
        /\ C19_NoFurtherLookup

\* the file named 2, seen after ci.yml, is the first key of byWorkflow
C19_FileNamed2MovesAhead ==
    /\ pc = "outputs"
    /\ C19_FilesFirstSeen = <<<<"c","i",".","y","m","l">>, <<"2">>>>
    /\ [k \in 1..Len(byWorkflow) |-> byWorkflow[k].key] = <<<<"2">>, <<"c","i",".","y","m","l">>>>

(***************************************************************************)
(* C20.  Running checkAllActions twice on the same reference list, with a  *)
(* collaborator that answers the same for the same owner, repo and ref,    *)
(* yields identical reports (same entries, same order, same field values); *)
(* nothing of the first call influences the second, which makes the same   *)
(* lookups again.                                                          *)
(***************************************************************************)
C20_SameReportTwice ==
    pc = "returned" =>
        /\ Len(fnOut.value) = 2
        /\ fnOut.value[1] = fnOut.value[2]
        /\ fnOut.value[2] = [mutable |-> mutable, immutable |-> immutable,
                             firstParty |-> firstParty, byWorkflow |-> byWorkflow]
        /\ Len(calls) % 2 = 0
        /\ SubSeq(calls, 1, Len(calls) \div 2) = SubSeq(calls, Len(calls) \div 2 + 1, Len(calls))
        /\ allActions = fnArgs.actions

C20_Witness ==
    /\ pc = "returned"
    /\ Len(fnOut.value) = 2
    /\ Len(fnOut.value[1].mutable) = 1
    /\ Len(fnOut.value[1].immutable) = 1
    /\ Len(fnOut.value[1].firstParty) = 1
    /\ Len(fnOut.value[2].byWorkflow) = 2
    /\ Len(calls) = 2

(***************************************************************************)
(* C21.  The effective fail-on-mutable flag is true when neither the       *)
(* native input nor the INPUT_FAIL_ON_MUTABLE environment fallback         *)
(* supplies a value (default true), true for the supplied values "true",   *)
(* "1" and "yes", and false for every other supplied value.                *)
(***************************************************************************)
\* the value supplied: the native one, else the one of the environment
C21_Supplied ==
    IF fnArgs.native["fail-on-mutable"] # <<>>
    THEN fnArgs.native["fail-on-mutable"]
    ELSE fnArgs.env["fail-on-mutable"]

C21_TrueSpellings == { <<"t","r","u","e">>, <<"1">>, <<"y","e","s">> }

C21_FlagDefaultsTrue ==
    pc = "getBooleanInput.done" =>
        fnOut.value = (C21_Supplied = <<>> \/ C21_Supplied \in C21_TrueSpellings)

\* no value at all gives false
C21_NothingSuppliedIsFalse ==
    /\ pc = "getBooleanInput.done"
    /\ fnArgs.native["fail-on-mutable"] = <<>>
    /\ fnArgs.env["fail-on-mutable"] = <<>>
    /\ fnOut.value = FALSE

\* a supplied value other than the three spellings gives true
C21_UpperCaseIsTrue ==
    /\ pc = "getBooleanInput.done"
    /\ C21_Supplied = <<"T","R","U","E">>
    /\ fnOut.value = TRUE

\* what does hold: the flag is true exactly for the supplied values that are
\* true, 1 or yes in any letter case
C21_FlagOfSuppliedValue ==
    pc = "getBooleanInput.done" =>
        fnOut.value = (ToLowerCase(C21_Supplied) \in C21_TrueSpellings)

(***************************************************************************)
(* C22.  getWorkflowFiles applies the exclude list only when the workflows *)
(* input is empty.  With a non-empty workflows input it returns exactly    *)
(* the listed files that exist, in the listed order, warns once for each   *)
(* listed file that is missing, and ignores exclude-workflows; with an     *)
(* empty workflows input it returns every .yml / .yaml file of the         *)
(* directory whose basename is not in the exclude list.                    *)
(***************************************************************************)
C22_DirNames == { fnArgs.ws.files[i].name : i \in 1..Len(fnArgs.ws.files) }

C22_Listing == [i \in 1..Len(fnArgs.ws.files) |-> fnArgs.ws.files[i].name]

C22_Returned == [i \in 1..Len(fnOut.value) |-> fnOut.value[i][2]]

C22_Excluded == Range(NameList(fnArgs.exclude))

C22_IsYaml(f) ==
    \/ Len(f) >= 4 /\ SubSeq(f, Len(f) - 3, Len(f)) = <<".","y","m","l">>
    \/ Len(f) >= 5 /\ SubSeq(f, Len(f) - 4, Len(f)) = <<".","y","a","m","l">>

C22_ExcludeOnlyWithoutAllowList ==
    (pc = "getWorkflowFiles.done" /\ fnArgs.ws.dirExists) =>
        IF fnArgs.workflows # <<>>
        THEN LET listed == NameList(fnArgs.workflows) IN
             /\ C22_Returned = SelectSeq(listed, LAMBDA w : w \in C22_DirNames)
             /\ [i \in 1..Len(warnings) |-> warnings[i].path]
                    = SelectSeq(listed, LAMBDA w : w \notin C22_DirNames)
             /\ \A i \in 1..Len(warnings) :
                    warnings[i].text = "Specified workflow file not found"
        ELSE /\ C22_Returned = SelectSeq(C22_Listing,
                                   LAMBDA f : C22_IsYaml(f) /\ f \notin C22_Excluded)
             /\ warnings = <<>>

\* an allow-list naming an excluded file, a missing file and a file that is
\* not a workflow file; and a directory listing filtered by the exclude list
C22_Witness ==
    /\ pc = "getWorkflowFiles.done"
    /\ fnArgs.workflows = JoinComma(sCiYml, <<" ">> \o sMYml \o <<" ">>)
    /\ fnArgs.exclude = JoinComma(sCiYml, sDYaml)
    /\ C22_Returned = <<sCiYml>>
    /\ Len(warnings) = 1
    /\ warnings[1].path = sMYml

(***************************************************************************)
(* C23.  Remote lookups are issued strictly one at a time: never are two   *)
(* lookups in flight, the lookup for the next unique non-exempt reference  *)
(* starts only after the previous one has completed, and lookups are       *)
(* issued in the first-occurrence order of the unique non-exempt           *)
(* references.                                                             *)
(***************************************************************************)
\* the uses strings to look up, in the order of their first occurrence
C23_ToLookUp ==
    DistinctUses(SelectSeq(allActions,
                           LAMBDA a : a.owner \notin ExemptOwners /\ ~Hex40(a.ref)))

C23_Completed(u) == \E i \in 1..Len(cacheWrites) : cacheWrites[i] = u

C23_OneLookupAtATime ==
    /\ Len(inflight) <= 1
    /\ Len(calls) <= Len(C23_ToLookUp)
    /\ UsesOf(calls) = SubSeq(C23_ToLookUp, 1, Len(calls))
    /\ \A i \in 1..(Len(calls) - 1) : C23_Completed(calls[i].uses)
    /\ IF inflight = <<>>
       THEN \A i \in 1..Len(calls) : C23_Completed(calls[i].uses)
       ELSE /\ calls # <<>>
            /\ inflight[1] = [owner |-> calls[Len(calls)].owner,
                              repo  |-> calls[Len(calls)].repo,
                              tag   |-> calls[Len(calls)].tag]
            /\ ~C23_Completed(calls[Len(calls)].uses)
    /\ pc = "done" /\ allActions # <<>> => Len(calls) = Len(C23_ToLookUp)

\* two lookups made in the order of first occurrence, the first reference
\* occurring again after the second
C23_Witness ==
    /\ pc = "done"
    /\ UsesOf(allActions) = <<uSubPath, uTag, uSubPath>>
    /\ UsesOf(calls) = <<uSubPath, uTag>>

(***************************************************************************)
(* C24.  Within one checkAllActions call the classification cache is       *)
(* write-once per key: each uses string is written at most once, a written *)
(* value is never overwritten or removed, and the cache is created empty   *)
(* at the start of the call and not shared with any other call.            *)
(***************************************************************************)
C24_CacheKeys(m) == [i \in 1..Len(m) |-> m[i].key]

C24_OneWritePerKey ==
    /\ \A i, j \in 1..Len(cacheWrites) : i # j => cacheWrites[i] # cacheWrites[j]
    /\ C24_CacheKeys(cache) = cacheWrites

\* a step that starts a call leaves a cache holding that call's first-party
\* results only; any other step keeps every entry where and as it was and
\* adds at most one
C24_EntriesStay ==
    IF pc = "aggregate"
    THEN /\ \A i \in 1..Len(cache') :
               /\ cache'[i].value = FirstPartyResult
               /\ \E k \in 1..Len(allActions) :
                     /\ allActions[k].uses = cache'[i].key
                     /\ allActions[k].owner \in ExemptOwners
         /\ \A i, j \in 1..Len(cache') : i # j => cache'[i].key # cache'[j].key
    ELSE /\ Len(cache') \in {Len(cache), Len(cache) + 1}
         /\ \A i \in 1..Len(cache) : cache'[i] = cache[i]
         /\ Len(cache') = Len(cache) + 1 =>
               \A i \in 1..Len(cache) : cache[i].key # cache'[Len(cache')].key

C24_CacheIsWriteOnce == []C24_OneWritePerKey /\ [][C24_EntriesStay]_vars

\* the second call has ended: it wrote a first-party and a looked-up result
\* for references that occur more than once in the input
C24_Witness ==
    /\ pc = "returned"
    /\ Len(cache) = 2
    /\ cache[1].value = FirstPartyResult
    /\ cache[2].value # FirstPartyResult
    /\ Len(allActions) = 3
    /\ Len(calls) = 2

(***************************************************************************)
(* C25.  For every uses string that parseActionReference accepts, owner    *)
(* and repo are the first two segments, delimited by "/", of the text      *)
(* before the first "@", and ref is everything after the first "@" of the  *)
(* string.                                                                 *)
(***************************************************************************)
\* the text of s before the first c, all of s if there is none
C25_Before(s, c) ==
    IF IndexOf(s, c, 1) = 0 THEN s ELSE SubSeq(s, 1, IndexOf(s, c, 1) - 1)

\* the text of s after the first c, nothing if there is none
C25_After(s, c) ==
    IF IndexOf(s, c, 1) = 0 THEN <<>> ELSE SubSeq(s, IndexOf(s, c, 1) + 1, Len(s))

C25_Expected(uses) ==
    LET path == C25_Before(uses, "@") IN
    [owner |-> C25_Before(path, "/"),
     repo  |-> C25_Before(C25_After(path, "/"), "/"),
     ref   |-> C25_After(uses, "@")]

C25_Accepted ==
    /\ pc = "parseActionReference.done"
    /\ fnArgs.type = "string"
    /\ fnOut.value # NoRef

C25_RefIsAfterFirstAt ==
    C25_Accepted => fnOut.value = C25_Expected(fnArgs.chars)

\* a@b/r@v1 is accepted with owner a@b and ref v1
C25_OwnerHoldsAt ==
    /\ C25_Accepted
    /\ fnArgs.chars = <<"a","@","b","/","r","@","v","1">>
    /\ fnOut.value = [owner |-> <<"a","@","b">>, repo |-> <<"r">>, ref |-> <<"v","1">>]

\* what does hold: the reading is the stated one whenever no "@" comes
\* before the first "/"
C25_RefIsAfterFirstAtOfRepo ==
    (C25_Accepted /\ "@" \notin Range(C25_Before(fnArgs.chars, "/")))
        => fnOut.value = C25_Expected(fnArgs.chars)

(***************************************************************************)
(* C26.  When several input references share a uses string, the            *)
(* de-duplication keeps the first occurrence: the surviving element, from  *)
(* which the report entry and the lookup arguments are taken, is the first *)
(* input element with that uses string, not a later one.                   *)
(***************************************************************************)
\* the first element of list with the uses string u
C26_FirstWith(list, u) ==
    list[CHOOSE i \in 1..Len(list) :
            list[i].uses = u /\ \A j \in 1..(i - 1) : list[j].uses # u]

\* the last element of list with the uses string u
C26_LastWith(list, u) ==
    list[CHOOSE i \in 1..Len(list) :
            list[i].uses = u /\ \A j \in (i + 1)..Len(list) : list[j].uses # u]

C26_InCall == pc \in {"check", "await", "outputs"}

C26_KeepsFirstOccurrence ==
    C26_InCall =>
        \A k \in 1..Len(uniqueActions) :
            uniqueActions[k] = C26_FirstWith(allActions, uniqueActions[k].uses)

\* the element looked up is the one of the second step using o/r@v1
C26_LaterOccurrenceSurvives ==
    /\ C26_InCall
    /\ Len(allActions) = 2
    /\ allActions[1].uses = uTag
    /\ allActions[2].uses = uTag
    /\ allActions[1].stepName = "s1"
    /\ uniqueActions = <<allActions[2]>>
    /\ uniqueActions[1].stepName = "s2"

\* what does hold: the survivor is the last element with its uses string, at
\* the place of the first one, and agrees with the first one on the fields the
\* uses string fixes
C26_KeepsLastOccurrence ==
    C26_InCall =>
        /\ \A k \in 1..Len(uniqueActions) :
              LET first == C26_FirstWith(allActions, uniqueActions[k].uses) IN
              /\ uniqueActions[k] = C26_LastWith(allActions, uniqueActions[k].uses)
              /\ uniqueActions[k].owner = first.owner
              /\ uniqueActions[k].repo = first.repo
              /\ uniqueActions[k].ref = first.ref
        /\ UsesOf(uniqueActions)
              = DistinctUses(SelectSeq(allActions, LAMBDA a : a.owner \notin ExemptOwners))

(***************************************************************************)
(* C27.  Classification only annotates a reference: every entry of the     *)
(* report, in the flat lists and in the per-file lists, carries all fields *)
(* of the reference it was built from, unchanged (uses, owner, repo, ref,  *)
(* workflowFile, jobName and stepName), plus the outcome fields.           *)
(***************************************************************************)
C27_ReferenceFields ==
    {"uses", "owner", "repo", "ref", "workflowFile", "jobName", "stepName"}

C27_OutcomeFields == {"immutable", "releaseFound", "message"}

\* entry has the given fields with the values of one input reference
C27_Carries(entry, fields) ==
    \E k \in 1..Len(allActions) :
        \A f \in fields : f \in DOMAIN entry /\ entry[f] = allActions[k][f]

C27_PerFileEntries ==
    Flatten([k \in 1..Len(byWorkflow) |-> ViewLists(byWorkflow[k].value)])

C27_EntriesCarryReference ==
    /\ \A i \in 1..Len(FlatLists) :
          /\ C27_Carries(FlatLists[i], C27_ReferenceFields)
          /\ C27_OutcomeFields \subseteq DOMAIN FlatLists[i]
    /\ \A i \in 1..Len(C27_PerFileEntries) :
          /\ C27_Carries(C27_PerFileEntries[i], C27_ReferenceFields)
          /\ C27_OutcomeFields \subseteq DOMAIN C27_PerFileEntries[i]

\* a report whose entries have no jobName and no stepName, the flat ones no
\* workflowFile either
C27_EntriesDropFields ==
    /\ pc = "returned"
    /\ FlatLists # <<>>
    /\ \A i \in 1..Len(FlatLists) :
          DOMAIN FlatLists[i] \cap C27_ReferenceFields = {"uses", "owner", "repo", "ref"}
    /\ \A i \in 1..Len(C27_PerFileEntries) :
          DOMAIN C27_PerFileEntries[i] \cap C27_ReferenceFields
              = {"uses", "owner", "repo", "ref", "workflowFile"}

\* what does hold: the entries carry uses, owner, repo and ref (the per-file
\* ones workflowFile too) of an input reference, and the outcome fields
C27_EntriesCarryParsedFields ==
    /\ \A i \in 1..Len(FlatLists) :
          /\ C27_Carries(FlatLists[i], {"uses", "owner", "repo", "ref"})
          /\ C27_OutcomeFields \subseteq DOMAIN FlatLists[i]
    /\ \A i \in 1..Len(C27_PerFileEntries) :
          /\ C27_Carries(C27_PerFileEntries[i], {"uses", "owner", "repo", "ref", "workflowFile"})
          /\ C27_OutcomeFields \subseteq DOMAIN C27_PerFileEntries[i]

(***************************************************************************)
(* C28.  After checkAllActions on references produced by the parser, the   *)
(* flat lists mutable, immutable and firstParty are pairwise disjoint by   *)
(* uses string and together hold exactly the distinct uses strings of the  *)
(* input; byWorkflow has a key for exactly the files that contributed a    *)
(* reference; and a uses string is in byWorkflow[f].X if and only if it    *)
(* occurs in file f and is in the flat list X.                             *)
(***************************************************************************)
C28_UsesIn(list) == { list[i].uses : i \in 1..Len(list) }

C28_InputUses == C28_UsesIn(allActions)

C28_InputFiles == { allActions[i].workflowFile : i \in 1..Len(allActions) }

C28_UsesOfFile(f) ==
    { allActions[i].uses : i \in { k \in 1..Len(allActions) : allActions[k].workflowFile = f } }

C28_ReportPartitionsInput ==
    Aggregated =>
        /\ C28_UsesIn(mutable) \cap C28_UsesIn(immutable) = {}
        /\ C28_UsesIn(mutable) \cap C28_UsesIn(firstParty) = {}
        /\ C28_UsesIn(immutable) \cap C28_UsesIn(firstParty) = {}
        /\ C28_UsesIn(mutable) \cup C28_UsesIn(immutable) \cup C28_UsesIn(firstParty)
              = C28_InputUses
        /\ Len(mutable) + Len(immutable) + Len(firstParty) = Cardinality(C28_InputUses)
        /\ { byWorkflow[k].key : k \in 1..Len(byWorkflow) } = C28_InputFiles
        /\ Len(byWorkflow) = Cardinality(C28_InputFiles)
        /\ \A k \in 1..Len(byWorkflow) :
              LET f == byWorkflow[k].key
                  view == byWorkflow[k].value
              IN /\ C28_UsesIn(view.mutable) = C28_UsesOfFile(f) \cap C28_UsesIn(mutable)
                 /\ C28_UsesIn(view.immutable) = C28_UsesOfFile(f) \cap C28_UsesIn(immutable)
                 /\ C28_UsesIn(view.firstParty) = C28_UsesOfFile(f) \cap C28_UsesIn(firstParty)
                 /\ \A i \in 1..Len(ViewLists(view)) :
                       C27_OutcomeFields \subseteq DOMAIN ViewLists(view)[i]

\* two files and a reference of each category
C28_Witness ==
    /\ pc = "done"
    /\ Aggregated
    /\ Len(byWorkflow) = 2
    /\ Len(mutable) = 1
    /\ Len(immutable) = 1
    /\ Len(firstParty) = 1
    /\ Len(byWorkflow[1].value.mutable) = 1
    /\ Len(byWorkflow[1].value.firstParty) = 1
    /\ Len(byWorkflow[2].value.immutable) = 1
    /\ Len(allActions) = 3

(***************************************************************************)
(* C29.  run never lets an exception escape: an unexpected error raised    *)
(* during discovery, parsing, aggregation or output ends with the run      *)
(* marked failed with "Action failed with error: " and the error's         *)
(* message, while a failure that occurs only when writing the job summary  *)
(* is absorbed and changes neither the outputs already set nor the         *)
(* pass/fail decision.                                                     *)
(***************************************************************************)
\* the error that reached the catch clause of run, if one did
C29_Raised ==
    IF lastResponse.kind = "thrown" THEN <<lastResponse.message>>
    ELSE IF lastResponse.kind = "rejected" /\ ~lastResponse.object
    THEN <<"Cannot read properties of null (reading 'status')">>
    ELSE <<>>

C29_ReportedOnce(message) ==
    /\ pc = "done"
    /\ failed = <<"Action failed with error: " \o message>>
    /\ summary = "none"

\* the outputs and the decision of a run that got as far as its summary
C29_Decided ==
    IF allActions = <<>>
    THEN /\ failed = <<>>
         /\ Len(outputs) = 4
         /\ OutputValue(outputs, "all-passed") = TRUE
    ELSE /\ failed = IF failOnMutable /\ mutable # <<>>
                     THEN <<"Found action(s) using mutable releases">> ELSE <<>>
         /\ Len(outputs) = 5
         /\ OutputValue(outputs, "all-passed") = (mutable = <<>>)
         /\ OutputValue(outputs, "mutable-actions") = [json |-> mutable]
         /\ OutputValue(outputs, "immutable-actions") = [json |-> immutable]

C29_Contained ==
    /\ pc # "escaped"
    /\ C29_Raised # <<>> => C29_ReportedOnce(C29_Raised[1])
    /\ (pc = "done" /\ summary # "none") => C29_Decided

\* the step that writes the summary, or fails to, leaves the outputs alone
C29_SummaryStep ==
    summary' # summary =>
        /\ summary' \in {"written", "fallback"}
        /\ pc \in {"summary"} => outputs' = outputs
        /\ \A i \in 1..Len(outputs) : outputs'[i] = outputs[i]

C29_NoExceptionEscapes == []C29_Contained /\ [][C29_SummaryStep]_vars

\* the last core.setOutput threw in a run that had found a mutable action
\* under fail-on-mutable
C29_Witness ==
    /\ pc = "done"
    /\ lastResponse = [kind |-> "thrown", message |-> "Missing file at path"]
    /\ Len(outputs) = 4
    /\ failOnMutable
    /\ mutable # <<>>
    /\ failed = <<"Action failed with error: Missing file at path">>

\* the client rejected with null: the TypeError of the resolver is reported
C29_LookupErrorReported ==
    /\ pc = "done"
    /\ lastResponse = [kind |-> "rejected", object |-> FALSE]
    /\ failed = <<"Action failed with error: Cannot read properties of null (reading 'status')">>

\* the summary could not be written in a run that fails on a mutable action
C29_SummaryFailureAbsorbed ==
    /\ pc = "done"
    /\ summary = "fallback"
    /\ Len(outputs) = 5
    /\ failed = <<"Found action(s) using mutable releases">>

(***************************************************************************)
(* C30.  If every remote lookup eventually returns or fails, run always    *)
(* reaches a terminal state (outputs set, or run marked failed), having    *)
(* issued exactly one lookup per distinct uses string of a non-exempt      *)
(* owner whose ref is not a full SHA (uses strings that name one owner,    *)
(* repo and ref through different sub-paths are each looked up), and when  *)
(* the run fails on mutable actions the outputs are set before the run is  *)
(* marked failed.                                                          *)
(* A lookup that fails by rejecting with null ends the run at once, with   *)
(* the remaining uses strings not looked up: C30_RunTerminates is the      *)
(* statement, C30_RunTerminatesUnlessLookupThrows what every run does.     *)
(***************************************************************************)
C30_Terminal ==
    /\ pc = "done"
    /\ inflight = <<>>
    /\ failed # <<>> \/ OutputSet(outputs, "all-passed")

C30_OneLookupEach ==
    (pc = "done" /\ getInput(inputs, "github-token") # <<>>) =>
        /\ \A i \in 1..Len(allActions) :
              LET a == allActions[i] IN
              CountUses(calls, a.uses)
                  = IF a.owner \notin ExemptOwners /\ ~Hex40(a.ref) THEN 1 ELSE 0
        /\ \A i \in 1..Len(calls) : CountUses(allActions, calls[i].uses) >= 1

C30_FourOutputs ==
    {"workflows-checked", "mutable-actions", "immutable-actions", "all-passed"}

\* a step that marks the run failed for mutable actions finds the outputs set
C30_OutputsBeforeFailure ==
    (/\ failed' # failed
     /\ failed'[Len(failed')] = "Found action(s) using mutable releases")
    => /\ \A n \in C30_FourOutputs : OutputSet(outputs, n)
       /\ outputs' = outputs

C30_RunTerminates ==
    /\ <>C30_Terminal
    /\ []C30_OneLookupEach
    /\ [][C30_OutputsBeforeFailure]_vars

\* the awaited call rejected with null or undefined, and reading error.status
\* in the catch block threw
C30_LookupThrew ==
    /\ lastResponse.kind = "rejected"
    /\ ~lastResponse.object
    /\ failed = <<"Action failed with error: " \o TypeErrorNoError.message>>

\* such a run is over after its first lookup, with a second uses string
\* never looked up and no output set
C30_AbortedAfterFirstLookup ==
    /\ pc = "done"
    /\ C30_LookupThrew
    /\ UsesOf(allActions) = <<uTag, uSubPath>>
    /\ Len(calls) = 1
    /\ outputs = <<>>

\* what holds: every run ends, a run no lookup of which threw has looked up
\* each such uses string once, a run one lookup of which threw has looked up
\* none twice, and the outputs precede the failure for mutable actions
C30_AtMostOneLookupEach ==
    /\ \A i \in 1..Len(calls) : CountUses(calls, calls[i].uses) = 1
    /\ \A i \in 1..Len(calls) :
          \E j \in 1..Len(allActions) :
             /\ allActions[j].uses = calls[i].uses
             /\ allActions[j].owner \notin ExemptOwners
             /\ ~Hex40(allActions[j].ref)

C30_RunTerminatesUnlessLookupThrows ==
    /\ <>C30_Terminal
    /\ [](~C30_LookupThrew => C30_OneLookupEach)
    /\ []C30_AtMostOneLookupEach
    /\ [][C30_OutputsBeforeFailure]_vars

\* a failed run over o/r@v1 and o/r/p@v1, used in two files: two lookups with
\* the same owner, repo and tag
C30_Witness ==
    /\ C30_Terminal
    /\ failed = <<"Found action(s) using mutable releases">>
    /\ UsesOf(allActions) = <<uTag, uSubPath, uTag>>
    /\ Len(byWorkflow) = 2
    /\ Len(calls) = 2
    /\ calls[1].tag = calls[2].tag
    /\ calls[1].repo = calls[2].repo
    /\ calls[1].owner = calls[2].owner
    /\ Len(outputs) = 5

====
